---- MODULE Spec2Model ----
(***************************************************************************)
(* A model of l_async (include/l_async.h): the self-iterating loop, the   *)
(* release-triggered result cell, and the single-thread executor of the   *)
(* tests that drives them.                                                 *)
(*                                                                         *)
(* The library is single-threaded and callback-driven, so the model keeps *)
(* an explicit call stack.  A state of the model is a point at which user *)
(* code (the body, a task, the main program) has control; one action is   *)
(* one thing user code does there, together with everything the library   *)
(* runs in answer until user code has control again.                      *)
(***************************************************************************)
EXTENDS Integers, Sequences, FiniteSets

\* ------------------------------------------------------------------ bounds

\* Synchronous K() calls from inside bodies, over the life of a loop.
MaxSync == 3
\* K() calls from outside any body (tasks and the main program).
MaxAsync == 3
\* Tasks handed to the executor over the life of a loop.
MaxTasks == 2
\* K() calls one task makes.
MaxTaskCalls == 2
\* Handles to one result cell (copies and setters), over its life.
MaxHandles == 3
\* The values of a field of the cell are 0..MaxVal.
MaxVal == 1
\* Items a stream handed to accumulate holds before its end.
MaxItems == 6
\* request() calls on one slot, over its life.
MaxRequests == 2
\* await() calls on the providers of one slot, over its life.
MaxAwaits == 2
\* Consumer handles of one slot that exist at a time.
MaxSlotHandles == 2
\* The values delivered through a slot are 1..MaxSlotVal.
MaxSlotVal == 2
\* Requests the consumer of a stream makes.
MaxAsked == 3
\* Requests the consumer of the tree stream makes.
MaxTreeAsked == 8
\* Tasks scheduled on an executor of its own, and the execute() calls made.
MaxScheduled == 4
MaxExecutes == 2
\* Levels of directories under the root of a tree scanned in any order.
MaxHeight == 1

VARIABLES
    flag,           \* loop: body->second
    useCount,       \* loop: use_count of the shared record
    alive,          \* loop: the shared record has not been destroyed
    ctorVar,        \* the constructed loop variable is still in scope
    stack,          \* call stack, bottom first: drive, body and task frames
    pc,             \* the main program: "new", "ctor", "idle", "call", "exec"
    tasks,          \* single_thread_executor::tasks
    current,        \* execute(): current_tasks
    cur,            \* execute(): position of the for loop in current_tasks
    nextTask,       \* number the next scheduled task gets
    bodyCalls,      \* history: body invocations so far
    kSync,          \* history: K() calls made from inside a body
    kAsync,         \* history: K() calls made from outside any body
    ctorBodyCalls,  \* history: body invocations when the constructor returned
    firstCalledK,   \* history: the first body invocation called K() itself
    syncUpTo,       \* stream: items answered inside get_next
    endAt,          \* stream: first value answered as end-of-stream
    si,             \* stream: async_or_async_data_stream::i
    expected,       \* BasicTest body capture: expected
    depth,          \* BasicTest body capture: depth
    seen,           \* history: the items the loop observed, in order
    eos,            \* history: the loop observed end-of-stream
    failed,         \* an ASSERT_ of the test failed (std::terminate)
    rOwners,        \* result: the live handles, each [id, kind]
    rUse,           \* result: use_count of data_t
    rData,          \* result: data_t::data, a pair
    rInit,          \* history: the initial value the cell was built with
    rNext,          \* number the next handle of the cell gets
    finCalls,       \* history: invocations of data_t::callback
    finValue,       \* history: the value the callback received
    rLast,          \* history: per field, the value assigned last
    rWriters,       \* history: the handles that assigned to the cell
    fanVals,        \* join: the values the two sources answer with
    fanOrder,       \* history: the fields of the pair, in the order assigned
    sHandles,       \* slot: the slot objects (consumer handles) in existence
    sUse,           \* slot: use_count of data
    sAlive,         \* slot: ~data has not begun
    sProv,          \* slot: get_provider() has been called
    awaitsRequest,  \* slot: data::who_awaits_request, 0 where empty
    awaitsData,     \* slot: data::who_awaits_data, 0 where empty
    sStack,         \* slot: the callbacks in progress, bottom first
    sFailed,        \* slot: an assert of the slot failed (abort)
    nextR,          \* number the next request listener gets
    nextH,          \* number the next data listener gets
    rLog,           \* history: per request listener, its invocations
    hLog,           \* history: per data listener, the values it received
    sOp,            \* history: the operation of the latest step
    ndebug,         \* the build defines NDEBUG: assert() expands to nothing
    bodyCopies,     \* history: copy constructions of the loop's body callable
    bodyThrew,      \* history: a body invocation ended by throwing
    vImpl,          \* streams: the source the tree provider is built from
    vLoop,          \* streams: per loop, its flag and its body's captures
    vSlot,          \* streams: per slot, who_awaits_request, who_awaits_data
    vCell,          \* streams: the result cells, use_count and data each
    vStack,         \* streams: call stack, bottom first
    vTasks,         \* streams: single_thread_executor::tasks
    vBatch,         \* streams: execute(): current_tasks
    vNum,           \* streams: the captures i and to of the range provider
    vAsked,         \* streams: requests the consumer has made
    vOut,           \* history: what the consumer's listeners received
    vFailed         \* streams: an assert or an ASSERT_ failed

loopVars == <<flag, useCount, alive, ctorVar, stack, pc, bodyCalls, kSync,
              kAsync, ctorBodyCalls, firstCalledK>>
execVars == <<tasks, current, cur, nextTask>>
testVars == <<syncUpTo, endAt, si, expected, depth, seen, eos, failed>>
resultVars == <<rOwners, rUse, rData, rInit, rNext, finCalls, finValue, rLast,
                rWriters>>
fanVars == <<fanVals, fanOrder>>
slotVars == <<sHandles, sUse, sAlive, sProv, awaitsRequest, awaitsData, sStack,
              sFailed, nextR, nextH, rLog, hLog, sOp, ndebug>>
auditVars == <<bodyCopies, bodyThrew>>
vmVars == <<vImpl, vLoop, vSlot, vCell, vStack, vTasks, vBatch, vNum, vAsked,
            vOut, vFailed>>
vars == <<loopVars, execVars, testVars, resultVars, fanVars, slotVars,
          auditVars,
          vmVars>>
\* What an operation of the result cell never touches.
besideResult == <<loopVars, execVars, testVars, fanVars, slotVars, auditVars,
                  vmVars>>
\* What an operation of the loop or of the executor never touches.
aside == <<testVars, resultVars, fanVars, slotVars, auditVars,
           vmVars>>

\* A task of the executor: the number it was scheduled under and the value its
\* callback was bound to (0 where the callback takes none).
Task(id, v) == [id |-> id, v |-> v]

\* ------------------------------------------------------------------ frames

DriveFrame == [kind |-> "drive", n |-> 0, sync |-> 0]
BodyFrame(n) == [kind |-> "body", n |-> n, sync |-> 0]
TaskFrame(id) == [kind |-> "task", n |-> id, sync |-> 0]

Top == stack[Len(stack)]
TopIs(kind) == stack # <<>> /\ Top.kind = kind
\* The stack with one more call counted in its top frame.
Counted == [stack EXCEPT ![Len(stack)].sync = @ + 1]
\* Body activations in progress.
Depth(stk) == Cardinality({i \in 1..Len(stk) : stk[i].kind = "body"})
BodyActive == Depth(stack) > 0

\* ------------------------------------------------------------------ loop

\* make_shared<pair<function, bool>>(std::move(body), false)
InitFlagSet == TRUE
InitFlag == FALSE
\* Whether building the record copy-constructs the body callable: it does
\* not, the constructor's parameter being moved.  The variant passes it as an
\* lvalue.
BodyPassedAsLvalue == TRUE
BodyCopiedIn == FALSE

\* while ((body->second = !body->second)): the flag stored, and whether the
\* loop body is entered.  The variants are slips of that line: == for =, the
\* value tested before the assignment, and a loop with no flag at all.
WhileCondCompare(f) == [flag |-> f, enter |-> FALSE]
WhileCondOld(f) == [flag |-> ~f, enter |-> f]
WhileCondAlways(f) == [flag |-> TRUE, enter |-> TRUE]
WhileCond(f) == [flag |-> ~f, enter |-> ~f]

\* A handle to the shared record is copied (K made from *this, K captured).
\* The variant is a copy the use count misses (a raw pointer captured).
CopyHandleUncounted(c) == c
CopyHandle(c) == c + 1

\* A handle is destroyed (K when the body returns, a task's capture, the
\* constructed variable).  The variant is a handle that is never given back
\* (the record keeping one to itself).
ReleaseHandleLeak(c) == c
ReleaseHandle(c) == c - 1

\* loop::operator() from the test of its while loop on, for a caller whose
\* frames are stk and with c handles left: it enters the body, or returns.
DriveLoop(stk, c) ==
    LET w == WhileCond(flag) IN
    /\ flag' = w.flag
    /\ alive' = (alive /\ c > 0)
    /\ IF w.enter
         THEN /\ stack' = stk \o <<DriveFrame, BodyFrame(bodyCalls + 1)>>
              /\ bodyCalls' = bodyCalls + 1
              /\ useCount' = CopyHandle(c)
         ELSE /\ stack' = stk
              /\ bodyCalls' = bodyCalls
              /\ useCount' = c

\* Where the main program is once the drive routine has acted.
MainAfter(running) ==
    /\ pc' = IF stack' = <<>> /\ pc # "exec" THEN "idle" ELSE running
    /\ ctorBodyCalls' = IF stack' = <<>> /\ pc \in {"new", "ctor"}
                          THEN bodyCalls' ELSE ctorBodyCalls

\* loop::loop: the record is allocated (Init); operator()() is called.
Construct ==
    /\ pc = "new"
    /\ DriveLoop(<<>>, useCount)
    /\ MainAfter("ctor")
    /\ UNCHANGED <<ctorVar, kSync, kAsync, firstCalledK, execVars, aside>>

\* The body calls K() itself.
BodyCallK ==
    /\ TopIs("body")
    /\ kSync < MaxSync
    /\ DriveLoop(Counted, useCount)
    /\ kSync' = kSync + 1
    /\ firstCalledK' = (firstCalledK \/ Top.n = 1)
    /\ UNCHANGED <<ctorVar, pc, kAsync, ctorBodyCalls, execVars, aside>>

\* The body captures a copy of K in a callback it hands to the executor.
BodyDeferK ==
    /\ TopIs("body")
    /\ nextTask <= MaxTasks
    /\ tasks' = Append(tasks, Task(nextTask, 0))
    /\ nextTask' = nextTask + 1
    /\ useCount' = CopyHandle(useCount)
    /\ UNCHANGED <<flag, alive, ctorVar, stack, pc, bodyCalls, kSync, kAsync,
                   ctorBodyCalls, firstCalledK, current, cur, aside>>

\* The body returns: its K is destroyed and the drive routine below it tests
\* its while condition again.
BodyReturn ==
    /\ TopIs("body")
    /\ DriveLoop(SubSeq(stack, 1, Len(stack) - 2), ReleaseHandle(useCount))
    /\ MainAfter(pc)
    /\ UNCHANGED <<ctorVar, kSync, kAsync, firstCalledK, execVars, aside>>

\* The main program calls the loop it constructed.
MainCallK ==
    /\ pc = "idle"
    /\ ctorVar
    /\ kAsync < MaxAsync
    /\ DriveLoop(<<>>, useCount)
    /\ MainAfter("call")
    /\ kAsync' = kAsync + 1
    /\ UNCHANGED <<ctorVar, kSync, firstCalledK, execVars, aside>>

\* The constructed loop variable goes out of scope.
DropVar ==
    /\ pc = "idle"
    /\ ctorVar
    /\ ctorVar' = FALSE
    /\ useCount' = ReleaseHandle(useCount)
    /\ alive' = (alive /\ useCount' > 0)
    /\ UNCHANGED <<flag, stack, pc, bodyCalls, kSync, kAsync, ctorBodyCalls,
                   firstCalledK, execVars, aside>>

\* ---------------------------------------------------------------- executor

\* execute(): tasks is not empty, current_tasks takes its content.
Execute ==
    /\ pc = "idle"
    /\ tasks # <<>>
    /\ current' = tasks
    /\ tasks' = <<>>
    /\ cur' = 1
    /\ pc' = "exec"
    /\ UNCHANGED <<flag, useCount, alive, ctorVar, stack, bodyCalls, kSync,
                   kAsync, ctorBodyCalls, firstCalledK, nextTask, aside>>

\* execute(): t() for the next task of current_tasks.
RunTask ==
    /\ pc = "exec"
    /\ stack = <<>>
    /\ cur <= Len(current)
    /\ stack' = <<TaskFrame(current[cur].id)>>
    /\ UNCHANGED <<flag, useCount, alive, ctorVar, pc, bodyCalls, kSync, kAsync,
                   ctorBodyCalls, firstCalledK, execVars, aside>>

\* A task calls the K it captured.
TaskCallK ==
    /\ TopIs("task")
    /\ Top.sync < MaxTaskCalls
    /\ kAsync < MaxAsync
    /\ DriveLoop(Counted, useCount)
    /\ kAsync' = kAsync + 1
    /\ UNCHANGED <<ctorVar, pc, kSync, ctorBodyCalls, firstCalledK, execVars, aside>>

\* A task returns to execute().
TaskReturn ==
    /\ TopIs("task")
    /\ stack' = <<>>
    /\ cur' = cur + 1
    /\ UNCHANGED <<flag, useCount, alive, ctorVar, pc, bodyCalls, kSync, kAsync,
                   ctorBodyCalls, firstCalledK, tasks, current, nextTask, aside>>

\* execute(): the for loop is over and current_tasks is destroyed, with the
\* handles its tasks captured; execute() goes on while tasks is not empty.
ExecuteBatchEnd ==
    /\ pc = "exec"
    /\ stack = <<>>
    /\ cur > Len(current)
    /\ useCount' = useCount - Len(current)
    /\ alive' = (alive /\ useCount' > 0)
    /\ IF tasks = <<>>
         THEN /\ pc' = "idle"
              /\ current' = <<>>
              /\ cur' = 0
              /\ tasks' = tasks
         ELSE /\ pc' = "exec"
              /\ current' = tasks
              /\ cur' = 1
              /\ tasks' = <<>>
    /\ UNCHANGED <<flag, ctorVar, stack, bodyCalls, kSync, kAsync, ctorBodyCalls,
                   firstCalledK, nextTask>>

\* The same, where the loop's body captured nothing that is modelled.
BatchEnd ==
    /\ ExecuteBatchEnd
    /\ UNCHANGED aside

\* ------------------------------------------------------------ specification

LoopInit ==
    /\ flag = InitFlag
    /\ useCount = 1
    /\ alive = TRUE
    /\ ctorVar = TRUE
    /\ stack = <<>>
    /\ pc = "new"
    /\ tasks = <<>>
    /\ current = <<>>
    /\ cur = 0
    /\ nextTask = 1
    /\ bodyCalls = 0
    /\ kSync = 0
    /\ kAsync = 0
    /\ ctorBodyCalls = 0
    /\ firstCalledK = FALSE
    /\ bodyCopies = (IF BodyCopiedIn THEN 1 ELSE 0)
    /\ bodyThrew = FALSE

\* The variables of the stream test, where no stream test runs.
TestIdle ==
    /\ syncUpTo = 0
    /\ endAt = 0
    /\ si = 0
    /\ expected = 0
    /\ depth = 0
    /\ seen = <<>>
    /\ eos = FALSE
    /\ failed = FALSE

\* The variables of the result cell, where no cell is built.
ResultIdle ==
    /\ rOwners = {}
    /\ rUse = 0
    /\ rData = <<0, 0>>
    /\ rInit = <<0, 0>>
    /\ rNext = 1
    /\ finCalls = 0
    /\ finValue = <<0, 0>>
    /\ rLast = <<0, 0>>
    /\ rWriters = {}

\* The variables of the join, where no join runs.
FanIdle ==
    /\ fanVals = <<0, 0>>
    /\ fanOrder = <<>>

\* An operation on a slot, with the value it was passed (0 for none).
Op(name, v) == [op |-> name, v |-> v]

\* The variables of the slot, where no slot is built.
SlotIdle ==
    /\ sHandles = 0
    /\ sUse = 0
    /\ sAlive = FALSE
    /\ sProv = FALSE
    /\ awaitsRequest = 0
    /\ awaitsData = 0
    /\ sStack = <<>>
    /\ sFailed = FALSE
    /\ nextR = 1
    /\ nextH = 1
    /\ rLog = <<>>
    /\ hLog = <<>>
    /\ sOp = Op("", 0)
    /\ ndebug = FALSE

\* The variables of the stream programs, where none runs.
VmIdle ==
    /\ vImpl = ""
    /\ vLoop = <<>>
    /\ vSlot = <<>>
    /\ vCell = <<>>
    /\ vStack = <<>>
    /\ vTasks = <<>>
    /\ vBatch = <<>>
    /\ vNum = 0
    /\ vAsked = 0
    /\ vOut = <<>>
    /\ vFailed = FALSE

Init == LoopInit /\ TestIdle /\ ResultIdle /\ FanIdle /\ SlotIdle /\ VmIdle

Next ==
    \/ Construct
    \/ BodyCallK
    \/ BodyDeferK
    \/ BodyReturn
    \/ MainCallK
    \/ DropVar
    \/ Execute
    \/ RunTask
    \/ TaskCallK
    \/ TaskReturn
    \/ BatchEnd

Spec == Init /\ [][Next]_vars

\* ---------------------------------------------- loop: a body that throws

\* What operator() does to the flag when an exception leaves body->first: it
\* has no handler, so nothing.  The variant is a guard object that clears it.
FlagReset(f) == FALSE
FlagUnwound(f) == f

\* The body throws, once in a run.  The exception leaves every activation in
\* progress, up to the main program, which handles it: the K of each body
\* activation is destroyed, execute()'s current_tasks too, and so is the
\* member of a loop whose constructor it leaves.
BodyThrow ==
    LET inCtor == pc \in {"new", "ctor"}
        gone == Depth(stack) + Len(current) + (IF inCtor THEN 1 ELSE 0) IN
    /\ TopIs("body")
    /\ ~bodyThrew
    /\ bodyThrew' = TRUE
    /\ flag' = FlagUnwound(flag)
    /\ stack' = <<>>
    /\ current' = <<>>
    /\ cur' = 0
    /\ pc' = "idle"
    /\ ctorVar' = (ctorVar /\ ~inCtor)
    /\ useCount' = useCount - gone
    /\ alive' = (alive /\ useCount' > 0)
    /\ UNCHANGED <<bodyCalls, kSync, kAsync, ctorBodyCalls, firstCalledK,
                   tasks, nextTask, testVars, resultVars, fanVars, slotVars,
                   bodyCopies, vmVars>>

NextThrow ==
    \/ Construct
    \/ BodyCallK
    \/ BodyDeferK
    \/ BodyReturn
    \/ BodyThrow
    \/ MainCallK
    \/ DropVar
    \/ Execute
    \/ RunTask
    \/ TaskCallK
    \/ TaskReturn
    \/ BatchEnd

SpecThrow == Init /\ [][NextThrow]_vars

\* ----------------------------------------------- loop_test.cpp: BasicTest

\* get_next: if (i < 5)
SyncItems == 5
\* get_next: v < 10 ? optional<int>(v) : nullopt
EndValue == 10
\* ASSERT_LT(depth, 2)
DepthLimit == 2
\* ASSERT_EQ(expected, 9)
ExpectedItems == 9

\* A failed ASSERT_ ends the program (testing::fail calls std::terminate), with
\* depth and expected as the body left them.
Terminate(d, e) ==
    /\ failed' = TRUE
    /\ depth' = d
    /\ expected' = e
    /\ UNCHANGED <<loopVars, execVars, syncUpTo, endAt, si, seen, eos,
                   resultVars, fanVars, slotVars, auditVars,
                   vmVars>>

\* The body up to the next() of its callback, where get_next answers inside
\* the call: depth++, the depth assertion, callback(++i), the data assertion,
\* and next() on the copy of K the callback holds.
BT_BodySync ==
    /\ TopIs("body") /\ Top.sync = 0
    /\ si < syncUpTo
    /\ IF depth + 1 >= DepthLimit
         THEN Terminate(depth + 1, expected)
         ELSE IF si + 1 # expected + 1
         THEN Terminate(depth + 1, expected + 1)
         ELSE /\ depth' = depth + 1
              /\ si' = si + 1
              /\ expected' = expected + 1
              /\ seen' = Append(seen, si + 1)
              /\ DriveLoop(Counted, CopyHandle(useCount))
              /\ kSync' = kSync + 1
              /\ firstCalledK' = (firstCalledK \/ Top.n = 1)
              /\ UNCHANGED <<ctorVar, pc, kAsync, ctorBodyCalls, execVars,
                             syncUpTo, endAt, eos, failed, resultVars, fanVars, slotVars,
                             auditVars,
                             vmVars>>

\* The rest of the body once next() has returned: the callback returns and is
\* destroyed with its copy of K, depth--, and the body returns.
BT_BodyAfterSync ==
    /\ TopIs("body") /\ Top.sync = 1
    /\ depth' = depth - 1
    /\ DriveLoop(SubSeq(stack, 1, Len(stack) - 2),
                 ReleaseHandle(ReleaseHandle(useCount)))
    /\ MainAfter(pc)
    /\ UNCHANGED <<ctorVar, kSync, kAsync, firstCalledK, execVars, syncUpTo,
                   endAt, si, expected, seen, eos, failed, resultVars, fanVars, slotVars,
                   auditVars,
                   vmVars>>

\* The whole body where get_next defers its answer: depth++, the depth
\* assertion, the callback moved into a task bound to v = ++i, depth--, return.
BT_BodyDefer ==
    /\ TopIs("body") /\ Top.sync = 0
    /\ si >= syncUpTo
    /\ IF depth + 1 >= DepthLimit
         THEN Terminate(depth + 1, expected)
         ELSE /\ si' = si + 1
              /\ tasks' = Append(tasks, Task(nextTask, si + 1))
              /\ nextTask' = nextTask + 1
              /\ DriveLoop(SubSeq(stack, 1, Len(stack) - 2),
                           ReleaseHandle(CopyHandle(useCount)))
              /\ MainAfter(pc)
              /\ UNCHANGED <<ctorVar, kSync, kAsync, firstCalledK, current, cur,
                             syncUpTo, endAt, expected, depth, seen, eos,
                             failed, resultVars, fanVars, slotVars, auditVars,
                             vmVars>>

\* A task answers with an item: the data assertion, then next().
BT_TaskData ==
    /\ TopIs("task") /\ Top.sync = 0
    /\ current[cur].v < endAt
    /\ IF current[cur].v # expected + 1
         THEN Terminate(depth, expected + 1)
         ELSE /\ expected' = expected + 1
              /\ seen' = Append(seen, current[cur].v)
              /\ DriveLoop(Counted, useCount)
              /\ kAsync' = kAsync + 1
              /\ UNCHANGED <<ctorVar, pc, kSync, ctorBodyCalls, firstCalledK,
                             execVars, syncUpTo, endAt, si, depth, eos, failed,
                             resultVars, fanVars, slotVars, auditVars,
                             vmVars>>

\* A task answers with end-of-stream: the count assertion, no next(), return.
BT_TaskEnd ==
    /\ TopIs("task") /\ Top.sync = 0
    /\ current[cur].v >= endAt
    /\ IF expected # ExpectedItems
         THEN Terminate(depth, expected)
         ELSE /\ eos' = TRUE
              /\ stack' = <<>>
              /\ cur' = cur + 1
              /\ UNCHANGED <<flag, useCount, alive, ctorVar, pc, bodyCalls,
                             kSync, kAsync, ctorBodyCalls, firstCalledK, tasks,
                             current, nextTask, syncUpTo, endAt, si, expected,
                             depth, seen, failed, resultVars, fanVars, slotVars,
                             auditVars,
                             vmVars>>

\* A task that called next() returns to execute().
BT_TaskReturn ==
    /\ TopIs("task") /\ Top.sync = 1
    /\ TaskReturn

\* The test ends: execute() has returned and the loop variable leaves scope.
BT_TestEnd ==
    /\ tasks = <<>>
    /\ DropVar

\* The stream of the test answers SyncItems items inside get_next and ends at
\* EndValue; the shapes drawn here are those and every smaller one.
TestInit ==
    /\ syncUpTo \in 0..SyncItems
    /\ endAt \in 1..EndValue
    /\ si = 0
    /\ expected = 0
    /\ depth = 0
    /\ seen = <<>>
    /\ eos = FALSE
    /\ failed = FALSE

InitBasicTest == LoopInit /\ TestInit /\ ResultIdle /\ FanIdle /\ SlotIdle /\ VmIdle

NextBasicTest ==
    \/ ~failed /\ Construct
    \/ ~failed /\ BT_BodySync
    \/ ~failed /\ BT_BodyAfterSync
    \/ ~failed /\ BT_BodyDefer
    \/ ~failed /\ Execute
    \/ ~failed /\ RunTask
    \/ ~failed /\ BT_TaskData
    \/ ~failed /\ BT_TaskEnd
    \/ ~failed /\ BT_TaskReturn
    \/ ~failed /\ BatchEnd
    \/ ~failed /\ BT_TestEnd

SpecBasicTest == InitBasicTest /\ [][NextBasicTest]_vars

\* ------------------------------------------------------------- result cell

Val == 0..MaxVal
Fields == {1, 2}
\* A handle to the cell: a result<T> ("cell"), or the closure setter() made
\* for one field ("set"), which holds the shared pointer too.
Handle(id, kind, field) == [id |-> id, kind |-> kind, field |-> field]

\* data_t::~data_t: callback(std::move(data)).  The variant hands the callback
\* a fresh T() in place of the stored value.
DataDtorDefault(d) == [calls |-> 1, arg |-> <<0, 0>>]
DataDtor(d) == [calls |-> 1, arg |-> d]

\* The shared pointer of a handle is destroyed; the last one destroys data_t.
ResultRelease ==
    /\ rUse' = ReleaseHandle(rUse)
    /\ IF rUse' = 0
         THEN /\ finCalls' = finCalls + DataDtor(rData).calls
              /\ finValue' = DataDtor(rData).arg
         ELSE UNCHANGED <<finCalls, finValue>>

\* A result<T> or a setter is copied (passed by value, captured).
RCopy(h) ==
    /\ rNext <= MaxHandles
    /\ rOwners' = rOwners \cup {Handle(rNext, h.kind, h.field)}
    /\ rNext' = rNext + 1
    /\ rUse' = CopyHandle(rUse)
    /\ UNCHANGED <<rData, rInit, finCalls, finValue, rLast, rWriters>>

\* result::setter(dst) for a field of the cell: [dst = &dst, holder = ptr].
RSetter(h, f) ==
    /\ h.kind = "cell"
    /\ rNext <= MaxHandles
    /\ rOwners' = rOwners \cup {Handle(rNext, "set", f)}
    /\ rNext' = rNext + 1
    /\ rUse' = CopyHandle(rUse)
    /\ UNCHANGED <<rData, rInit, finCalls, finValue, rLast, rWriters>>

\* A field is assigned through operator* or operator-> of a result<T>.
RAssign(h, f, v) ==
    /\ h.kind = "cell"
    /\ rData' = [rData EXCEPT ![f] = v]
    /\ rLast' = [rLast EXCEPT ![f] = v]
    /\ rWriters' = rWriters \cup {h.id}
    /\ UNCHANGED <<rOwners, rUse, rInit, rNext, finCalls, finValue>>

\* A setter is invoked: *dst = move(value).  The variant captures the
\* field by value, so that the assignment reaches a copy of it.
RSetByValue(h, v) ==
    /\ h.kind = "set"
    /\ rLast' = [rLast EXCEPT ![h.field] = v]
    /\ rWriters' = rWriters \cup {h.id}
    /\ UNCHANGED <<rData, rOwners, rUse, rInit, rNext, finCalls, finValue>>
RSet(h, v) ==
    /\ h.kind = "set"
    /\ rData' = [rData EXCEPT ![h.field] = v]
    /\ rLast' = [rLast EXCEPT ![h.field] = v]
    /\ rWriters' = rWriters \cup {h.id}
    /\ UNCHANGED <<rOwners, rUse, rInit, rNext, finCalls, finValue>>

\* A handle is destroyed.
RDrop(h) ==
    /\ rOwners' = rOwners \ {h}
    /\ ResultRelease
    /\ UNCHANGED <<rData, rInit, rNext, rLast, rWriters>>

\* result(callback, initial_value): one handle, the value moved into data_t.
ResultInit ==
    /\ rOwners = {Handle(1, "cell", 0)}
    /\ rUse = 1
    /\ rInit \in Val \X Val
    /\ rData = rInit
    /\ rNext = 2
    /\ finCalls = 0
    /\ finValue = <<0, 0>>
    /\ rLast = rInit
    /\ rWriters = {}

InitResult == LoopInit /\ TestIdle /\ ResultInit /\ FanIdle /\ SlotIdle /\ VmIdle

NextResult ==
    \/ \E h \in rOwners : RCopy(h) /\ UNCHANGED besideResult
    \/ \E h \in rOwners : \E f \in Fields :
          RSetter(h, f) /\ UNCHANGED besideResult
    \/ \E h \in rOwners : \E f \in Fields : \E v \in Val :
          RAssign(h, f, v) /\ UNCHANGED besideResult
    \/ \E h \in rOwners : \E v \in Val :
          RSet(h, v) /\ UNCHANGED besideResult
    \/ \E h \in rOwners : RDrop(h) /\ UNCHANGED besideResult

SpecResult == InitResult /\ [][NextResult]_vars

\* ------------------------------------------ result_example.cpp: accumulate

\* get_data: v < 3 ? optional<int>(v) : nullopt
StreamItems == 3
\* result = result<vector<int>>(callback): the handle the body captured.
Captured == Handle(1, "cell", 0)

\* The whole body: get_data moves its callback, which holds a copy of K, into
\* a task bound to v = i++, and the body returns.
AC_Body ==
    /\ TopIs("body")
    /\ si' = si + 1
    /\ tasks' = Append(tasks, Task(nextTask, si))
    /\ nextTask' = nextTask + 1
    /\ DriveLoop(SubSeq(stack, 1, Len(stack) - 2),
                 ReleaseHandle(CopyHandle(useCount)))
    /\ MainAfter(pc)
    /\ UNCHANGED <<ctorVar, kSync, kAsync, firstCalledK, current, cur,
                   syncUpTo, endAt, expected, depth, seen, eos, failed,
                   resultVars, fanVars, slotVars, auditVars,
                   vmVars>>

\* accumulate returns: for_stream leaves scope.
AC_Return ==
    /\ tasks # <<>>
    /\ DropVar

\* ex.execute(), called once accumulate has returned.
AC_Execute ==
    /\ ~ctorVar
    /\ Execute

\* A task answers with an item: result.data().push_back(*data), then next().
AC_TaskData ==
    /\ TopIs("task") /\ Top.sync = 0
    /\ current[cur].v < endAt
    /\ rData' = Append(rData, current[cur].v)
    /\ DriveLoop(Counted, useCount)
    /\ kAsync' = kAsync + 1
    /\ UNCHANGED <<ctorVar, pc, kSync, ctorBodyCalls, firstCalledK, execVars,
                   testVars, rOwners, rUse, rInit, rNext, finCalls, finValue,
                   rLast, rWriters, fanVars, slotVars, auditVars,
                   vmVars>>

\* A task answers with end-of-stream: if (!data) return.
AC_TaskEnd ==
    /\ TopIs("task") /\ Top.sync = 0
    /\ current[cur].v >= endAt
    /\ eos' = TRUE
    /\ stack' = <<>>
    /\ cur' = cur + 1
    /\ UNCHANGED <<flag, useCount, alive, ctorVar, pc, bodyCalls, kSync, kAsync,
                   ctorBodyCalls, firstCalledK, tasks, current, nextTask,
                   syncUpTo, endAt, si, expected, depth, seen, failed,
                   resultVars, fanVars, slotVars, auditVars,
                   vmVars>>

\* A task that called next() returns to execute().
AC_TaskReturn ==
    /\ TopIs("task") /\ Top.sync = 1
    /\ TaskReturn

\* execute() destroys current_tasks; where that destroys the last handle of
\* the loop, the record goes with the body and what the body captured.
AC_BatchEnd ==
    /\ ExecuteBatchEnd
    /\ IF alive /\ ~alive'
         THEN RDrop(Captured) /\ UNCHANGED <<testVars, fanVars, slotVars,
                                             auditVars,
                                             vmVars>>
         ELSE UNCHANGED aside

\* The stream of the example holds StreamItems items; the lengths drawn here
\* are 0..MaxItems.
AccStreamInit ==
    /\ syncUpTo = 0
    /\ endAt \in 0..MaxItems
    /\ si = 0
    /\ expected = 0
    /\ depth = 0
    /\ seen = <<>>
    /\ eos = FALSE
    /\ failed = FALSE

\* result<vector<int>>(callback): one handle, an empty vector.
AccResultInit ==
    /\ rOwners = {Captured}
    /\ rUse = 1
    /\ rInit = <<>>
    /\ rData = <<>>
    /\ rNext = 2
    /\ finCalls = 0
    /\ finValue = <<>>
    /\ rLast = <<>>
    /\ rWriters = {}

InitAccumulate ==
    LoopInit /\ AccStreamInit /\ AccResultInit /\ FanIdle /\ SlotIdle /\ VmIdle

NextAccumulate ==
    \/ Construct
    \/ AC_Body
    \/ AC_Return
    \/ AC_Execute
    \/ RunTask
    \/ AC_TaskData
    \/ AC_TaskEnd
    \/ AC_TaskReturn
    \/ AC_BatchEnd

SpecAccumulate == InitAccumulate /\ [][NextAccumulate]_vars

\* ------------------------------------------- slot_test.cpp: join, the pair

\* The values a source of the join answers with.
FanVal == {10, 20}
\* result<pair<...>> combined(...): the handle the creator holds.
Combined == Handle(1, "cell", 0)

\* list_a(combined.setter(combined->first)), then
\* list_b(combined.setter(combined->second)): the setter of the next field is
\* made and handed to the source of that field.
FanMakeSetter ==
    /\ Combined \in rOwners
    /\ rNext \in {2, 3}
    /\ RSetter(Combined, rNext - 1)
    /\ UNCHANGED <<besideResult>>

\* The statement that made the setters ends: combined goes out of scope.
FanCreatorDone ==
    /\ Combined \in rOwners
    /\ rNext = 4
    /\ RDrop(Combined)
    /\ UNCHANGED <<besideResult>>

\* A source answers: it invokes the setter it was handed, once.
FanDeliver ==
    \E h \in rOwners :
       /\ h.kind = "set"
       /\ h.id \notin rWriters
       /\ RSet(h, fanVals[h.field])
       /\ fanOrder' = Append(fanOrder, h.field)
       /\ UNCHANGED <<loopVars, execVars, testVars, fanVals, slotVars,
                      auditVars,
                      vmVars>>

\* A source that has answered destroys the setter it was handed.
FanRelease ==
    \E h \in rOwners :
       /\ h.kind = "set"
       /\ h.id \in rWriters
       /\ RDrop(h)
       /\ UNCHANGED <<besideResult>>

FanInit ==
    /\ fanVals \in FanVal \X FanVal
    /\ fanOrder = <<>>

InitFanIn == LoopInit /\ TestIdle /\ ResultInit /\ FanInit /\ SlotIdle /\ VmIdle

NextFanIn ==
    \/ FanMakeSetter
    \/ FanCreatorDone
    \/ FanDeliver
    \/ FanRelease

SpecFanIn == InitFanIn /\ [][NextFanIn]_vars

\* A source destroys the setter it was handed without ever invoking it: the
\* closure goes, and the shared pointer it holds with it.
FanAbandon ==
    \E h \in rOwners :
       /\ h.kind = "set"
       /\ h.id \notin rWriters
       /\ RDrop(h)
       /\ UNCHANGED <<besideResult>>

\* The join with sources that may answer nothing.
NextFanDrop ==
    \/ FanMakeSetter
    \/ FanCreatorDone
    \/ FanDeliver
    \/ FanRelease
    \/ FanAbandon

SpecFanDrop == InitFanIn /\ [][NextFanDrop]_vars

\* --------------------------------------------------------------------- slot

SlotVal == 1..MaxSlotVal

\* What an operation of the slot makes of the two listeners: whether an assert
\* failed, the listeners as it leaves them, and the listener it invokes (cb, 0
\* for none) with the flag it passes to a request listener.
Outcome(fail, req, dat, cb, term) ==
    [fail |-> fail, req |-> req, dat |-> dat, cb |-> cb, term |-> term]

\* slot::operator()(data_listener) on listeners req, dat; fail tells that the
\* assert does not hold, the rest is what the statements after it do.  The
\* variant calls the parked request listener where it stands, without the swap.
SlotRequestInPlace(req, dat, h) == Outcome(dat # 0, req, h, req, FALSE)
\* The variant that calls the parked listener before it stores the data
\* listener.
SlotRequestCallsFirst(req, dat, h) ==
    IF req # 0 THEN Outcome(dat # 0, 0, dat, req, FALSE)
    ELSE Outcome(dat # 0, req, h, 0, FALSE)
SlotRequest(req, dat, h) ==
    IF req # 0 THEN Outcome(dat # 0, 0, h, req, FALSE)
    ELSE Outcome(dat # 0, req, h, 0, FALSE)

\* provider::await(request_listener); live tells whether ptr.lock() gave a
\* pointer.  The variant parks the listener whatever the slot holds.
ProviderAwaitParks(live, req, dat, r) ==
    IF ~live THEN Outcome(FALSE, req, dat, r, TRUE)
    ELSE Outcome(req # 0, r, dat, 0, FALSE)
\* The variant that takes the slot for alive while a provider exists.
ProviderAwaitNoLock(live, req, dat, r) ==
    IF dat # 0 THEN Outcome(req # 0, req, dat, r, FALSE)
    ELSE Outcome(req # 0, r, dat, 0, FALSE)
ProviderAwait(live, req, dat, r) ==
    IF ~live THEN Outcome(FALSE, req, dat, r, TRUE)
    ELSE IF dat # 0 THEN Outcome(req # 0, req, dat, r, FALSE)
    ELSE Outcome(req # 0, r, dat, 0, FALSE)

\* provider::operator()(value); cb is 0 where temp is empty after the swap.
\* The variant calls the data listener where it stands, without the swap.
\* The variant that takes the slot for alive while a provider exists.
ProviderDeliverNoLock(live, req, dat) == Outcome(dat = 0, req, 0, dat, FALSE)
ProviderDeliverInPlace(live, req, dat) ==
    IF ~live THEN Outcome(FALSE, req, dat, 0, FALSE)
    ELSE Outcome(dat = 0, req, dat, dat, FALSE)
ProviderDeliver(live, req, dat) ==
    IF ~live THEN Outcome(FALSE, req, dat, 0, FALSE)
    ELSE Outcome(dat = 0, req, 0, dat, FALSE)

\* temp(std::move(value)) in provider::operator(): calling an empty temp throws
\* std::bad_function_call.  The variant calls temp only where it is not empty.
CallsEmptyGuarded(live, o) == FALSE
CallsEmpty(live, o) == live /\ o.cb = 0

\* assert(): with NDEBUG the statements after it run whatever the condition;
\* without, a condition that does not hold ends the program (abort) and the
\* listeners are left as they were.  The variant never ends the program.
AssertedOff(o, req, dat) == [o EXCEPT !.fail = FALSE]
Asserted(o, req, dat) ==
    IF o.fail /\ ~ndebug THEN Outcome(TRUE, req, dat, 0, FALSE)
    ELSE [o EXCEPT !.fail = FALSE]

\* data::~data.  The variant destroys the listeners without a call.
SlotDataDtorSilent(req, dat) == Outcome(FALSE, req, dat, 0, TRUE)
SlotDataDtor(req, dat) == Outcome(FALSE, req, dat, req, TRUE)

\* A listener in progress: kind "request" or "data", its number, the flag or
\* the value it was passed, the operation that invoked it ("request", "await",
\* "deliver", "dtor"), whether that operation holds the pointer it locked, the
\* data listener registered when it was invoked, and whether the listener has
\* made an operation on the slot yet (0 or 1).
SlotFrame(kind, cb, term, v, via, lock, h) ==
    [kind |-> kind, cb |-> cb, term |-> term, v |-> v, via |-> via,
     lock |-> lock, h |-> h, ops |-> 0]
STop == sStack[Len(sStack)]
STopIs(kind) == sStack # <<>> /\ STop.kind = kind
\* The stack once the listener on top has made an operation.
Touched == IF sStack = <<>> THEN sStack
           ELSE [sStack EXCEPT ![Len(sStack)].ops = 1]
\* An invocation of a request listener, as the history keeps it.
Invoked(term, via) == [term |-> term, via |-> via]

\* ~data, above the frames stk: the parked request listener is invoked where it
\* stands; the members are destroyed once it has returned.
SlotDestroy(stk) ==
    LET o == SlotDataDtor(awaitsRequest, awaitsData) IN
    IF o.cb # 0
      THEN [stack |-> Append(stk, SlotFrame("request", o.cb, o.term, 0,
                                            "dtor", FALSE, 0)),
            req |-> awaitsRequest, dat |-> awaitsData,
            rlog |-> [rLog EXCEPT ![o.cb] = Append(@, Invoked(o.term, "dtor"))]]
      ELSE [stack |-> stk, req |-> 0, dat |-> 0, rlog |-> rLog]

\* What the destruction of one shared pointer to data leaves, above the
\* frames stk: the last one destroys the record.
SlotReleased(stk) ==
    IF sAlive /\ ReleaseHandle(sUse) = 0
      THEN SlotDestroy(stk)
      ELSE [stack |-> stk, req |-> awaitsRequest, dat |-> awaitsData,
            rlog |-> rLog]

\* A shared pointer to data is destroyed, above the frames stk.
SlotRelease(stk) ==
    LET n == SlotReleased(stk) IN
    /\ sUse' = ReleaseHandle(sUse)
    /\ sAlive' = (sUse' > 0)
    /\ sStack' = n.stack
    /\ awaitsRequest' = n.req
    /\ awaitsData' = n.dat
    /\ rLog' = n.rlog

\* slot::get_provider().
SGetProvider ==
    /\ sHandles > 0
    /\ ~sProv
    /\ sProv' = TRUE
    /\ sStack' = Touched
    /\ sOp' = Op("provider", 0)
    /\ UNCHANGED <<sHandles, sUse, sAlive, awaitsRequest, awaitsData, sFailed,
                   nextR, nextH, rLog, hLog>>

\* A slot object is copied.
SCopy ==
    /\ sHandles > 0
    /\ sHandles < MaxSlotHandles
    /\ sHandles' = sHandles + 1
    /\ sUse' = CopyHandle(sUse)
    /\ sStack' = Touched
    /\ sOp' = Op("copy", 0)
    /\ UNCHANGED <<sAlive, sProv, awaitsRequest, awaitsData, sFailed, nextR,
                   nextH, rLog, hLog>>

\* A slot object is destroyed.
SDrop ==
    /\ sHandles > 0
    /\ sHandles' = sHandles - 1
    /\ SlotRelease(Touched)
    /\ sOp' = Op("drop", 0)
    /\ UNCHANGED <<sProv, sFailed, nextR, nextH, hLog>>

\* The consumer calls the slot with a data listener.
SRequest ==
    LET o == Asserted(SlotRequest(awaitsRequest, awaitsData, nextH),
                      awaitsRequest, awaitsData) IN
    /\ sHandles > 0
    /\ nextH <= MaxRequests
    /\ nextH' = nextH + 1
    /\ hLog' = Append(hLog, <<>>)
    /\ sFailed' = o.fail
    /\ awaitsRequest' = o.req
    /\ awaitsData' = o.dat
    /\ IF o.cb # 0
         THEN /\ sStack' = Append(Touched, SlotFrame("request", o.cb, o.term,
                                                     0, "request", FALSE, o.dat))
              /\ rLog' = [rLog EXCEPT
                            ![o.cb] = Append(@, Invoked(o.term, "request"))]
         ELSE /\ sStack' = Touched
              /\ rLog' = rLog
    /\ sOp' = Op("request", 0)
    /\ UNCHANGED <<sHandles, sUse, sAlive, sProv, nextR>>

\* A producer calls await with a request listener.
SAwait ==
    LET o == Asserted(ProviderAwait(sUse > 0, awaitsRequest, awaitsData, nextR),
                      awaitsRequest, awaitsData) IN
    /\ sProv
    /\ nextR <= MaxAwaits
    /\ nextR' = nextR + 1
    /\ sFailed' = o.fail
    /\ awaitsRequest' = o.req
    /\ awaitsData' = o.dat
    /\ IF o.cb # 0
         THEN /\ sStack' = Append(Touched, SlotFrame("request", o.cb, o.term,
                                                     0, "await", sUse > 0, o.dat))
              /\ rLog' = Append(rLog, <<Invoked(o.term, "await")>>)
              /\ sUse' = IF sUse > 0 THEN CopyHandle(sUse) ELSE sUse
         ELSE /\ sStack' = Touched
              /\ rLog' = Append(rLog, <<>>)
              /\ sUse' = sUse
    /\ sOp' = Op("await", 0)
    /\ UNCHANGED <<sHandles, sAlive, sProv, nextH, hLog>>

\* A producer calls its provider with a value.
SDeliver(v) ==
    LET o == Asserted(ProviderDeliver(sUse > 0, awaitsRequest, awaitsData),
                      awaitsRequest, awaitsData)
        thrown == CallsEmpty(sUse > 0, o) IN
    /\ sProv
    /\ sFailed' = (o.fail \/ thrown)
    /\ awaitsRequest' = o.req
    /\ awaitsData' = o.dat
    /\ IF o.cb # 0
         THEN /\ sStack' = Append(Touched, SlotFrame("data", o.cb, FALSE, v,
                                                     "deliver", TRUE, 0))
              /\ hLog' = [hLog EXCEPT ![o.cb] = Append(@, v)]
              /\ sUse' = CopyHandle(sUse)
         ELSE /\ sStack' = Touched
              /\ hLog' = hLog
              /\ sUse' = sUse
    /\ sOp' = Op("deliver", v)
    /\ UNCHANGED <<sHandles, sAlive, sProv, nextR, nextH, rLog>>

\* What the return of the listener whose frame is f leaves, above the frames
\* rest: the use count of the record, the stack, the two members and the log.
SlotReturned(f, rest) ==
    IF f.via = "dtor"
      THEN [use |-> sUse, stack |-> rest, req |-> 0, dat |-> 0, rlog |-> rLog]
      ELSE IF f.lock
      THEN LET n == SlotReleased(rest) IN
           [use |-> ReleaseHandle(sUse), stack |-> n.stack, req |-> n.req,
            dat |-> n.dat, rlog |-> n.rlog]
      ELSE [use |-> sUse, stack |-> rest, req |-> awaitsRequest,
            dat |-> awaitsData, rlog |-> rLog]

\* The listener on top returns to the operation that invoked it, and that
\* operation returns: ~data destroys the members, await and the provider call
\* destroy the pointer they locked.
SReturn ==
    LET n == SlotReturned(STop, SubSeq(sStack, 1, Len(sStack) - 1)) IN
    /\ sStack # <<>>
    /\ sStack' = n.stack
    /\ sUse' = n.use
    /\ sAlive' = (sAlive /\ n.use > 0)
    /\ awaitsRequest' = n.req
    /\ awaitsData' = n.dat
    /\ rLog' = n.rlog
    /\ sOp' = Op("return", 0)
    /\ UNCHANGED <<sHandles, sProv, sFailed, nextR, nextH, hLog>>

\* slot(): ptr(std::make_shared<data>()).
SlotInit ==
    /\ sHandles = 1
    /\ sUse = 1
    /\ sAlive = TRUE
    /\ sProv = FALSE
    /\ awaitsRequest = 0
    /\ awaitsData = 0
    /\ sStack = <<>>
    /\ sFailed = FALSE
    /\ nextR = 1
    /\ nextH = 1
    /\ rLog = <<>>
    /\ hLog = <<>>
    /\ sOp = Op("", 0)

\* What an operation of the slot never touches; the build is one of them.
besideSlot == <<loopVars, execVars, testVars, resultVars, fanVars, ndebug,
                auditVars,
                vmVars>>

\* A build with assert() in force.
InitSlot ==
    LoopInit /\ TestIdle /\ ResultIdle /\ FanIdle /\ SlotInit /\ ndebug = FALSE /\ VmIdle
\* A build with NDEBUG defined.
InitSlotNdebug ==
    LoopInit /\ TestIdle /\ ResultIdle /\ FanIdle /\ SlotInit /\ ndebug = TRUE /\ VmIdle

\* A failed assert ends the program.
NextSlot ==
    \/ ~sFailed /\ SGetProvider /\ UNCHANGED besideSlot
    \/ ~sFailed /\ SCopy /\ UNCHANGED besideSlot
    \/ ~sFailed /\ SDrop /\ UNCHANGED besideSlot
    \/ ~sFailed /\ SRequest /\ UNCHANGED besideSlot
    \/ ~sFailed /\ SAwait /\ UNCHANGED besideSlot
    \/ ~sFailed /\ (\E v \in SlotVal : SDeliver(v)) /\ UNCHANGED besideSlot
    \/ ~sFailed /\ SReturn /\ UNCHANGED besideSlot

SpecSlot == InitSlot /\ [][NextSlot]_vars
SpecSlotNdebug == InitSlotNdebug /\ [][NextSlot]_vars

\* ------------------------------- slot_test.cpp: a provider from slot and loop

\* A function builds a slot, gives its provider to a loop and returns the slot:
\*     loop zipping([sink = result.get_provider()](auto next) mutable {
\*         sink.await([&, next](bool term) {
\*             if (term) return;
\*             ... sink(value); next(); }); });
\*     return result;
\* The inputs of join answer where they are asked, so the listener delivers
\* before it returns.  One call stack holds the frames of the loop and those of
\* the slot's listeners; the consumer holds the only handle of the slot and
\* asks again only once it has been answered.

\* The stack with one more step counted in the listener on top.
Ticked == [stack EXCEPT ![Len(stack)].ops = @ + 1]

\* slot<...> result; result.get_provider() is captured by the body.
StreamInit ==
    /\ sHandles = 1
    /\ sUse = 1
    /\ sAlive = TRUE
    /\ sProv = TRUE
    /\ awaitsRequest = 0
    /\ awaitsData = 0
    /\ sStack = <<>>
    /\ sFailed = FALSE
    /\ nextR = 1
    /\ nextH = 1
    /\ rLog = <<>>
    /\ hLog = <<>>
    /\ sOp = Op("", 0)
    /\ ndebug \in BOOLEAN

\* What no step of the stream touches.
besideStream == <<execVars, resultVars, fanVars, syncUpTo, endAt, expected,
                  depth, seen, eos, failed, sStack, sProv, ndebug,
                  firstCalledK, auditVars,
                  vmVars>>

\* The body: sink.await(listener), the listener holding a copy of next.
StreamBodyAwait ==
    LET o == Asserted(ProviderAwait(sUse > 0, awaitsRequest, awaitsData, nextR),
                      awaitsRequest, awaitsData) IN
    /\ TopIs("body")
    /\ Top.sync = 0
    /\ useCount' = CopyHandle(useCount)
    /\ nextR' = nextR + 1
    /\ sFailed' = o.fail
    /\ awaitsRequest' = o.req
    /\ awaitsData' = o.dat
    /\ IF o.cb # 0
         THEN /\ stack' = Append(Counted, SlotFrame("request", o.cb, o.term, 0,
                                                    "await", sUse > 0, o.dat))
              /\ rLog' = Append(rLog, <<Invoked(o.term, "await")>>)
              /\ sUse' = IF sUse > 0 THEN CopyHandle(sUse) ELSE sUse
         ELSE /\ stack' = Counted
              /\ rLog' = Append(rLog, <<>>)
              /\ sUse' = sUse
    /\ sOp' = Op("await", 0)
    /\ UNCHANGED <<flag, alive, ctorVar, pc, bodyCalls, kSync, kAsync,
                   ctorBodyCalls, si, sHandles, sAlive, nextH, hLog>>

\* The body returns once await has.
StreamBodyReturn ==
    /\ TopIs("body")
    /\ Top.sync = 1
    /\ BodyReturn

\* The function that built the stream returns the slot: its loop variable is
\* destroyed.
StreamReturn ==
    /\ stack = <<>>
    /\ DropVar

\* The listener, told that a request waits: sink(value), the next value of the
\* stream.
StreamWake ==
    LET o == Asserted(ProviderDeliver(sUse > 0, awaitsRequest, awaitsData),
                      awaitsRequest, awaitsData)
        thrown == CallsEmpty(sUse > 0, o) IN
    /\ TopIs("request")
    /\ ~Top.term
    /\ Top.ops = 0
    /\ si' = si + 1
    /\ sFailed' = (o.fail \/ thrown)
    /\ awaitsRequest' = o.req
    /\ awaitsData' = o.dat
    /\ IF o.cb # 0
         THEN /\ stack' = Append(Ticked, SlotFrame("data", o.cb, FALSE, si + 1,
                                                   "deliver", TRUE, 0))
              /\ hLog' = [hLog EXCEPT ![o.cb] = Append(@, si + 1)]
              /\ sUse' = CopyHandle(sUse)
         ELSE /\ stack' = Ticked
              /\ hLog' = hLog
              /\ sUse' = sUse
    /\ sOp' = Op("deliver", si + 1)
    /\ UNCHANGED <<flag, useCount, alive, ctorVar, pc, bodyCalls, kSync,
                   kAsync, ctorBodyCalls, sHandles, sAlive, nextR, nextH, rLog>>

\* The listener, its value delivered: next().
StreamNext ==
    /\ TopIs("request")
    /\ ~Top.term
    /\ Top.ops = 1
    /\ DriveLoop(Ticked, useCount)
    /\ MainAfter(pc)
    /\ kSync' = kSync + (IF BodyActive THEN 1 ELSE 0)
    /\ kAsync' = kAsync + (IF BodyActive THEN 0 ELSE 1)
    /\ sOp' = Op("next", 0)
    /\ UNCHANGED <<ctorVar, si, sHandles, sUse, sAlive, awaitsRequest,
                   awaitsData, sFailed, nextR, nextH, rLog, hLog>>

\* The listener returns, at once where it was told of the end, and is
\* destroyed with its copy of next; the operation of the slot that invoked it
\* returns.
StreamWakeReturn ==
    LET n == SlotReturned(Top, SubSeq(stack, 1, Len(stack) - 1)) IN
    /\ TopIs("request")
    /\ Top.term \/ Top.ops = 2
    /\ useCount' = ReleaseHandle(useCount)
    /\ alive' = (alive /\ useCount' > 0)
    /\ stack' = n.stack
    /\ sUse' = n.use
    /\ sAlive' = (sAlive /\ n.use > 0)
    /\ awaitsRequest' = n.req
    /\ awaitsData' = n.dat
    /\ rLog' = n.rlog
    /\ sOp' = Op("return", 0)
    /\ UNCHANGED <<flag, ctorVar, pc, bodyCalls, kSync, kAsync, ctorBodyCalls,
                   si, sHandles, sFailed, nextR, nextH, hLog>>

\* The consumer asks for an item: from the top level, or from the listener it
\* is being answered in.
StreamRequest ==
    LET o == Asserted(SlotRequest(awaitsRequest, awaitsData, nextH),
                      awaitsRequest, awaitsData)
        stk == IF stack = <<>> THEN stack ELSE Ticked IN
    /\ ~ctorVar
    /\ sHandles > 0
    /\ nextH <= MaxAsked
    /\ stack = <<>> \/ (TopIs("data") /\ Top.ops = 0)
    /\ \A h \in 1..Len(hLog) : hLog[h] # <<>>
    /\ nextH' = nextH + 1
    /\ hLog' = Append(hLog, <<>>)
    /\ sFailed' = o.fail
    /\ awaitsRequest' = o.req
    /\ awaitsData' = o.dat
    /\ IF o.cb # 0
         THEN /\ stack' = Append(stk, SlotFrame("request", o.cb, o.term, 0,
                                                "request", FALSE, nextH))
              /\ rLog' = [rLog EXCEPT ![o.cb] =
                              Append(@, Invoked(o.term, "request"))]
         ELSE /\ stack' = stk
              /\ rLog' = rLog
    /\ sOp' = Op("request", 0)
    /\ UNCHANGED <<flag, useCount, alive, ctorVar, pc, bodyCalls, kSync,
                   kAsync, ctorBodyCalls, si, sHandles, sUse, sAlive, nextR>>

\* The consumer's listener returns, and the provider call that invoked it.
StreamListenerReturn ==
    LET n == SlotReturned(Top, SubSeq(stack, 1, Len(stack) - 1)) IN
    /\ TopIs("data")
    /\ stack' = n.stack
    /\ sUse' = n.use
    /\ sAlive' = (sAlive /\ n.use > 0)
    /\ awaitsRequest' = n.req
    /\ awaitsData' = n.dat
    /\ rLog' = n.rlog
    /\ sOp' = Op("return", 0)
    /\ UNCHANGED <<flag, useCount, alive, ctorVar, pc, bodyCalls, kSync,
                   kAsync, ctorBodyCalls, si, sHandles, sFailed, nextR, nextH,
                   hLog>>

\* The consumer, at its top level, drops the slot.
StreamDrop ==
    LET n == SlotReleased(<<>>) IN
    /\ ~ctorVar
    /\ sHandles > 0
    /\ stack = <<>>
    /\ sHandles' = sHandles - 1
    /\ sUse' = ReleaseHandle(sUse)
    /\ sAlive' = (sUse' > 0)
    /\ stack' = n.stack
    /\ awaitsRequest' = n.req
    /\ awaitsData' = n.dat
    /\ rLog' = n.rlog
    /\ sOp' = Op("drop", 0)
    /\ UNCHANGED <<flag, useCount, alive, ctorVar, pc, bodyCalls, kSync,
                   kAsync, ctorBodyCalls, si, sFailed, nextR, nextH, hLog>>

InitStream ==
    LoopInit /\ TestIdle /\ ResultIdle /\ FanIdle /\ StreamInit /\ VmIdle

NextStream ==
    \/ ~sFailed /\ Construct
    \/ ~sFailed /\ StreamBodyAwait /\ UNCHANGED besideStream
    \/ ~sFailed /\ StreamBodyReturn
    \/ ~sFailed /\ StreamReturn
    \/ ~sFailed /\ StreamWake /\ UNCHANGED besideStream
    \/ ~sFailed /\ StreamNext /\ UNCHANGED besideStream
    \/ ~sFailed /\ StreamWakeReturn /\ UNCHANGED besideStream
    \/ ~sFailed /\ StreamRequest /\ UNCHANGED besideStream
    \/ ~sFailed /\ StreamListenerReturn /\ UNCHANGED besideStream
    \/ ~sFailed /\ StreamDrop /\ UNCHANGED besideStream

SpecStream == InitStream /\ [][NextStream]_vars

\* ----------------------------------------------------- streams on slots

\* The programs of slot_test.cpp and slot_example.cpp: providers made of
\* slots and loops, calling one another on one call stack.  Every consumer
\* keeps its slot to the end, so every lock() of a provider succeeds.

\* node root{1, {{11, {{111}, {112}}}, {12}}}: the nodes, numbered in the
\* order of the initializer, with their payloads and their subnodes.
Payload == <<1, 11, 111, 112, 12>>
Subnodes == <<<<2, 5>>, <<3, 4>>, <<>>, <<>>, <<>>>>
Nodes == 1..Len(Payload)
Nullopt == 0

\* The loops: by_subnodes of node n is loop n, then the loop that answers
\* past the end of the tree, the loop of the join and the loop of the test.
\* A request listener bears the number of the loop whose body parked it (in
\* slot_example.cpp, of the node whose scan parked it); the listener that
\* tree_iterator parks itself has a number of its own.  SlotExample joins
\* twice: the second join has a loop and a slot of its own.
AfterEnd == 6
Zipping == 7
TestLoop == 8
OuterZipping == 9
NLoops == 9
RootListener == 10
TreeSlot == 1
JoinSlot == 2
OuterSlot == 3

\* A loop record and what its body captured: the flag, i, the continuation
\* (the number of the loop whose K it is, 0 for the one the tree was given),
\* and how many times it was built.
FreshLoop == [flag |-> InitFlag, i |-> -1, cont |-> 0, built |-> 0]
\* loop by_subnodes(...) with cont captured, in the records loops.
Built(loops, l, cont) ==
    [loops EXCEPT ![l] = [flag |-> InitFlag, i |-> -1, cont |-> cont,
                          built |-> @.built + 1]]

\* An activation: of the body of loop a, of request listener a of slot s
\* ("wake"), of data listener a of slot s with value v ("data"), of the
\* finalizer of cell a ("fin"); pc counts the calls it has made.
VFrame(code, s, a, v, term) ==
    [code |-> code, s |-> s, a |-> a, v |-> v, term |-> term, pc |-> 0]
VTop == vStack[Len(vStack)]
VTopIs(code) == vStack # <<>> /\ VTop.code = code
\* The stack once the activation on top has made one more call.
Stepped == [vStack EXCEPT ![Len(vStack)].pc = @ + 1]
\* The stack once the activation on top has returned.
Popped == SubSeq(vStack, 1, Len(vStack) - 1)

\* loop::operator() of loop l from the test of its while loop on, above the
\* frames stk.
VmDrive(loops, l, stk) ==
    LET w == WhileCond(loops[l].flag) IN
    /\ vLoop' = [loops EXCEPT ![l].flag = w.flag]
    /\ vStack' = IF w.enter
                   THEN Append(stk, VFrame("body", 0, l, 0, FALSE))
                   ELSE stk
    /\ UNCHANGED <<vSlot, vFailed>>

\* provider::await(r) on slot s, above the frames stk.
VmAwait(loops, s, r, stk) ==
    LET o == Asserted(ProviderAwait(TRUE, vSlot[s].req, vSlot[s].dat, r),
                      vSlot[s].req, vSlot[s].dat) IN
    /\ vLoop' = loops
    /\ vFailed' = o.fail
    /\ vSlot' = [vSlot EXCEPT ![s] = [req |-> o.req, dat |-> o.dat]]
    /\ vStack' = IF o.cb # 0
                   THEN Append(stk, VFrame("wake", s, o.cb, 0, o.term))
                   ELSE stk

\* provider::operator()(v) on slot s, above the frames stk.
VmDeliver(s, v, stk) ==
    LET o == Asserted(ProviderDeliver(TRUE, vSlot[s].req, vSlot[s].dat),
                      vSlot[s].req, vSlot[s].dat) IN
    /\ vLoop' = vLoop
    /\ vFailed' = (o.fail \/ CallsEmpty(TRUE, o))
    /\ vSlot' = [vSlot EXCEPT ![s] = [req |-> o.req, dat |-> o.dat]]
    /\ vStack' = IF o.cb # 0
                   THEN Append(stk, VFrame("data", s, o.cb, v, FALSE))
                   ELSE stk

\* slot::operator()(h) on slot s, above the frames stk.
VmRequest(s, h, stk) ==
    LET o == Asserted(SlotRequest(vSlot[s].req, vSlot[s].dat, h),
                      vSlot[s].req, vSlot[s].dat) IN
    /\ vLoop' = vLoop
    /\ vFailed' = o.fail
    /\ vSlot' = [vSlot EXCEPT ![s] = [req |-> o.req, dat |-> o.dat]]
    /\ vStack' = IF o.cb # 0
                   THEN Append(stk, VFrame("wake", s, o.cb, 0, o.term))
                   ELSE stk

\* The activation on top returns to a caller that has nothing to destroy.
VmReturn ==
    /\ vStack' = Popped
    /\ UNCHANGED <<vLoop, vSlot, vFailed>>

\* cont() in the body of by_subnodes, the captures being loops: K of the loop
\* above, or, for the root, the function that builds the loop answering past
\* the end.
VmCont(loops, n) ==
    IF loops[n].cont = 0
      THEN VmDrive(Built(loops, AfterEnd, 0), AfterEnd, Stepped)
      ELSE VmDrive(loops, loops[n].cont, Stepped)

\* What the programs of the tree leave alone.
besideTree == <<vImpl, vCell, vTasks, vBatch, vNum>>

\* slot_test.cpp, tree_iterator: the listener it parks, woken.
TreeIteratorWake ==
    /\ VTopIs("wake")
    /\ VTop.a = RootListener
    /\ CASE VTop.term \/ VTop.pc = 2 -> VmReturn
         [] ~VTop.term /\ VTop.pc = 0 ->
              VmDeliver(TreeSlot, Payload[1], Stepped)
         [] ~VTop.term /\ VTop.pc = 1 ->
              VmDrive(Built(vLoop, 1, 0), 1, Stepped)
    /\ UNCHANGED <<vAsked, vOut>>

\* slot_test.cpp, node_iterator: the body of by_subnodes and its return.
NodeIteratorBody ==
    LET n == VTop.a
        loops == [vLoop EXCEPT ![n].i = @ + 1] IN
    /\ VTopIs("body")
    /\ n \in Nodes
    /\ vImpl = "test"
    /\ CASE VTop.pc = 0 /\ loops[n].i >= Len(Subnodes[n]) -> VmCont(loops, n)
         [] VTop.pc = 0 /\ loops[n].i < Len(Subnodes[n]) ->
              VmAwait(loops, TreeSlot, n, Stepped)
         [] VTop.pc = 1 -> VmDrive(vLoop, n, Popped)
    /\ UNCHANGED <<vAsked, vOut>>

\* slot_test.cpp, node_iterator: the listener of by_subnodes, woken.
NodeIteratorWake ==
    LET n == VTop.a
        child == Subnodes[n][vLoop[n].i + 1] IN
    /\ VTopIs("wake")
    /\ n \in Nodes
    /\ vImpl = "test"
    /\ CASE VTop.term \/ VTop.pc = 2 -> VmReturn
         [] ~VTop.term /\ VTop.pc = 0 ->
              VmDeliver(TreeSlot, Payload[child], Stepped)
         [] ~VTop.term /\ VTop.pc = 1 ->
              VmDrive(Built(vLoop, child, n), child, Stepped)
    /\ UNCHANGED <<vAsked, vOut>>

\* slot_example.cpp, node::scan: its listener, woken.
ScanWake ==
    LET n == VTop.a IN
    /\ VTopIs("wake")
    /\ n \in Nodes
    /\ vImpl = "example"
    /\ CASE VTop.term \/ VTop.pc = 2 -> VmReturn
         [] ~VTop.term /\ VTop.pc = 0 ->
              VmDeliver(TreeSlot, Payload[n], Stepped)
         [] ~VTop.term /\ VTop.pc = 1 ->
              VmDrive(Built(vLoop, n, vLoop[n].cont), n, Stepped)
    /\ UNCHANGED <<vAsked, vOut>>

\* slot_example.cpp, node::scan: the body of by_subnodes and its return;
\* subnodes[i].scan(sink, next) parks the listener of the subnode.
ScanBody ==
    LET n == VTop.a
        loops == [vLoop EXCEPT ![n].i = @ + 1]
        child == Subnodes[n][loops[n].i + 1] IN
    /\ VTopIs("body")
    /\ n \in Nodes
    /\ vImpl = "example"
    /\ CASE VTop.pc = 0 /\ loops[n].i < Len(Subnodes[n]) ->
              VmAwait([loops EXCEPT ![child].cont = n], TreeSlot, child,
                      Stepped)
         [] VTop.pc = 0 /\ loops[n].i >= Len(Subnodes[n]) -> VmCont(loops, n)
         [] VTop.pc = 1 -> VmDrive(vLoop, n, Popped)
    /\ UNCHANGED <<vAsked, vOut>>

\* after_end of slot_test.cpp, infinite of slot_example.cpp: the body and its
\* return.
AfterEndBody ==
    /\ VTopIs("body")
    /\ VTop.a = AfterEnd
    /\ CASE VTop.pc = 0 -> VmAwait(vLoop, TreeSlot, AfterEnd, Stepped)
         [] VTop.pc = 1 -> VmDrive(vLoop, AfterEnd, Popped)
    /\ UNCHANGED <<vAsked, vOut>>

\* after_end, infinite: the listener, woken: r(nullopt); next().
AfterEndWake ==
    /\ VTopIs("wake")
    /\ VTop.a = AfterEnd
    /\ CASE VTop.term \/ VTop.pc = 2 -> VmReturn
         [] ~VTop.term /\ VTop.pc = 0 -> VmDeliver(TreeSlot, Nullopt, Stepped)
         [] ~VTop.term /\ VTop.pc = 1 -> VmDrive(vLoop, AfterEnd, Stepped)
    /\ UNCHANGED <<vAsked, vOut>>

\* A consumer of the tree asks for an item, from its top level or from the
\* listener it is being answered in, once its last request was answered.
TreeRequest ==
    /\ vAsked < MaxTreeAsked
    /\ Len(vOut) = vAsked
    /\ vStack = <<>> \/ (VTopIs("data") /\ VTop.pc = 1)
    /\ vAsked' = vAsked + 1
    /\ VmRequest(TreeSlot, vAsked + 1,
                 IF vStack = <<>> THEN vStack ELSE Stepped)
    /\ vOut' = vOut

\* The consumer's listener: it notes what it got, and returns.
TreeListener ==
    /\ VTopIs("data")
    /\ IF VTop.pc = 0
         THEN /\ vOut' = Append(vOut, [h |-> VTop.a, v |-> VTop.v])
              /\ vStack' = Stepped
         ELSE /\ vOut' = vOut
              /\ vStack' = Popped
    /\ UNCHANGED <<vLoop, vSlot, vFailed, vAsked>>

\* tree_iterator(root), tree_stream(root) have returned: the slot holds the
\* listener they parked.
TreeInit ==
    /\ vImpl \in {"test", "example"}
    /\ vLoop = [l \in 1..NLoops |-> FreshLoop]
    /\ vSlot = [s \in {TreeSlot, JoinSlot} |->
                  IF s = TreeSlot
                    THEN [req |-> ProviderAwait(TRUE, 0, 0,
                                    IF vImpl = "test" THEN RootListener
                                                      ELSE 1).req,
                          dat |-> 0]
                    ELSE [req |-> 0, dat |-> 0]]
    /\ vCell = <<>>
    /\ vStack = <<>>
    /\ vTasks = <<>>
    /\ vBatch = <<>>
    /\ vNum = 0
    /\ vAsked = 0
    /\ vOut = <<>>
    /\ vFailed = FALSE

\* What no stream program touches.
besideVm == <<loopVars, execVars, testVars, resultVars, fanVars, slotVars,
              auditVars>>

InitTree ==
    LoopInit /\ TestIdle /\ ResultIdle /\ FanIdle /\ SlotIdle /\ TreeInit

NextTree ==
    \/ ~vFailed /\ TreeIteratorWake /\ UNCHANGED <<besideTree, besideVm>>
    \/ ~vFailed /\ NodeIteratorBody /\ UNCHANGED <<besideTree, besideVm>>
    \/ ~vFailed /\ NodeIteratorWake /\ UNCHANGED <<besideTree, besideVm>>
    \/ ~vFailed /\ ScanWake /\ UNCHANGED <<besideTree, besideVm>>
    \/ ~vFailed /\ ScanBody /\ UNCHANGED <<besideTree, besideVm>>
    \/ ~vFailed /\ AfterEndBody /\ UNCHANGED <<besideTree, besideVm>>
    \/ ~vFailed /\ AfterEndWake /\ UNCHANGED <<besideTree, besideVm>>
    \/ ~vFailed /\ TreeRequest /\ UNCHANGED <<besideTree, besideVm>>
    \/ ~vFailed /\ TreeListener /\ UNCHANGED <<besideTree, besideVm>>

SpecTree == InitTree /\ [][NextTree]_vars

\* ------------------------------------------ slot_test.cpp: SyncSlotTest

\* join(numerator(ex, 1, 7), tree_iterator(root)), asked by test_loop and
\* driven by ex.execute().  A pair is <<first, second>>, Nullopt standing for
\* either half, and <<>> is the nullopt in place of a pair.
RangeFrom == 1
RangeTo == 7
NoPair == <<>>
ExpectedPairs == <<<<1, 1>>, <<2, 11>>, <<3, 111>>, <<4, 112>>, <<5, 12>>,
                   <<6, Nullopt>>>>

\* result<pair<...>> combined: its use count and the pair it holds.
FreshCell == [use |-> 1, first |-> Nullopt, second |-> Nullopt]

\* What the finalizer of join hands to sink.  The variant is the test of
\* inner_join, which wants both halves.
JoinedBoth(c) ==
    IF c.first # Nullopt /\ c.second # Nullopt THEN <<c.first, c.second>>
                                               ELSE NoPair
Joined(c) ==
    IF c.first # Nullopt \/ c.second # Nullopt THEN <<c.first, c.second>>
                                               ELSE NoPair

\* A handle of cell c is destroyed, the cells being cells, above the frames
\* stk: the last one runs ~data_t, which calls the finalizer.
VmRelease(cells, c, stk) ==
    LET u == ReleaseHandle(cells[c].use) IN
    /\ vCell' = [cells EXCEPT ![c].use = u]
    /\ vStack' = IF u = 0 THEN Append(stk, VFrame("fin", 0, c, 0, FALSE))
                          ELSE stk
    /\ UNCHANGED <<vLoop, vSlot, vFailed>>

\* The test: join(...) builds zipping, then test_loop is built.
MainBuild ==
    /\ VTopIs("main")
    /\ VTop.pc < 2
    /\ CASE VTop.pc = 0 -> VmDrive(Built(vLoop, Zipping, 0), Zipping, Stepped)
         [] VTop.pc = 1 ->
              VmDrive(Built(vLoop, TestLoop, 0), TestLoop, Stepped)
    /\ UNCHANGED <<vImpl, vCell, vTasks, vBatch, vNum, vAsked, vOut>>

\* join: the body of zipping and its return.
ZippingBody ==
    /\ VTopIs("body")
    /\ VTop.a = Zipping
    /\ CASE VTop.pc = 0 -> VmAwait(vLoop, JoinSlot, Zipping, Stepped)
         [] VTop.pc = 1 -> VmDrive(vLoop, Zipping, Popped)
    /\ UNCHANGED <<vImpl, vCell, vTasks, vBatch, vNum, vAsked, vOut>>

\* join: the listener of zipping, woken: combined is built; list_a gets the
\* setter of first, and numerator schedules the task that will call it;
\* list_b, the slot of the tree, gets the setter of second; combined is
\* destroyed on return.
ZippingWake ==
    LET c == Len(vCell) + 1
        v == IF vNum.i < vNum.to THEN vNum.i ELSE Nullopt IN
    /\ VTopIs("wake")
    /\ VTop.a = Zipping
    /\ CASE VTop.term ->
              VmReturn /\ UNCHANGED <<vCell, vTasks, vNum>>
         [] ~VTop.term /\ VTop.pc = 0 ->
              /\ vCell' = Append(vCell,
                                 [FreshCell EXCEPT !.use = CopyHandle(@)])
              /\ vTasks' = Append(vTasks, [c |-> c, v |-> v])
              /\ vNum' = IF vNum.i < vNum.to
                           THEN [vNum EXCEPT !.i = @ + 1] ELSE vNum
              /\ vStack' = Stepped
              /\ UNCHANGED <<vLoop, vSlot, vFailed>>
         [] ~VTop.term /\ VTop.pc = 1 ->
              /\ vCell' = [vCell EXCEPT ![Len(vCell)].use = CopyHandle(@)]
              /\ VmRequest(TreeSlot, Len(vCell), Stepped)
              /\ UNCHANGED <<vTasks, vNum>>
         [] ~VTop.term /\ VTop.pc = 2 ->
              /\ VmRelease(vCell, Len(vCell), Popped)
              /\ UNCHANGED <<vTasks, vNum>>
    /\ UNCHANGED <<vImpl, vBatch, vAsked, vOut>>

\* The setter of second, called by the tree's provider with a payload: it
\* assigns and returns, and the provider call destroys it.
SetterSecond ==
    LET c == VTop.a IN
    /\ VTopIs("data")
    /\ VTop.s = TreeSlot
    /\ VmRelease([vCell EXCEPT ![c].second = VTop.v], c, Popped)
    /\ UNCHANGED <<vImpl, vTasks, vBatch, vNum, vAsked, vOut>>

\* ~data_t of combined: the finalizer: sink(...); next().
Finalizer ==
    /\ VTopIs("fin")
    /\ CASE VTop.pc = 0 -> VmDeliver(JoinSlot, Joined(vCell[VTop.a]), Stepped)
         [] VTop.pc = 1 -> VmDrive(vLoop, Zipping, Stepped)
         [] VTop.pc = 2 -> VmReturn
    /\ UNCHANGED <<vImpl, vCell, vTasks, vBatch, vNum, vAsked, vOut>>

\* SyncSlotTest: the body of test_loop, source_stream(listener), and its
\* return.
TestLoopBody ==
    /\ VTopIs("body")
    /\ VTop.a = TestLoop
    /\ CASE VTop.pc = 0 ->
              /\ vAsked' = vAsked + 1
              /\ VmRequest(JoinSlot, vAsked + 1, Stepped)
         [] VTop.pc = 1 ->
              /\ vAsked' = vAsked
              /\ VmDrive(vLoop, TestLoop, Popped)
    /\ UNCHANGED <<vImpl, vCell, vTasks, vBatch, vNum, vOut>>

\* SyncSlotTest: the listener of test_loop: on a pair, expected_stream
\* answers at once with the next element of expected, or with nullopt past
\* the last, ASSERT_EQ compares and next() is called.
TestListener ==
    LET k == Cardinality({j \in 1..Len(vOut) : vOut[j].v # NoPair}) + 1
        wanted == IF k <= Len(ExpectedPairs) THEN ExpectedPairs[k]
                                             ELSE NoPair IN
    /\ VTopIs("data")
    /\ VTop.s = JoinSlot
    /\ CASE VTop.pc = 0 /\ VTop.v = NoPair ->
              /\ vOut' = Append(vOut, [h |-> VTop.a, v |-> VTop.v])
              /\ vStack' = Stepped
              /\ UNCHANGED <<vLoop, vSlot, vFailed>>
         [] VTop.pc = 0 /\ VTop.v # NoPair /\ VTop.v # wanted ->
              /\ vOut' = Append(vOut, [h |-> VTop.a, v |-> VTop.v])
              /\ vFailed' = TRUE
              /\ UNCHANGED <<vLoop, vSlot, vStack>>
         [] VTop.pc = 0 /\ VTop.v # NoPair /\ VTop.v = wanted ->
              /\ vOut' = Append(vOut, [h |-> VTop.a, v |-> VTop.v])
              /\ VmDrive(vLoop, TestLoop, Stepped)
         [] VTop.pc = 1 ->
              /\ vOut' = vOut
              /\ VmReturn
    /\ UNCHANGED <<vImpl, vCell, vTasks, vBatch, vNum, vAsked>>

\* execute(): tasks is not empty, current_tasks takes its content; or it is
\* empty and execute() returns, which ends the test.
VmExecute ==
    /\ VTopIs("main")
    /\ VTop.pc = 2
    /\ IF vTasks # <<>>
         THEN /\ vBatch' = vTasks
              /\ vTasks' = <<>>
              /\ vStack' = Append(vStack, VFrame("batch", 0, 0, 0, FALSE))
         ELSE /\ vStack' = Popped
              /\ UNCHANGED <<vBatch, vTasks>>
    /\ UNCHANGED <<vImpl, vLoop, vSlot, vCell, vNum, vAsked, vOut, vFailed>>

\* execute(): t() for the next task of current_tasks: callback(v), the setter
\* of first.
VmRunTask ==
    LET t == vBatch[VTop.pc + 1] IN
    /\ VTopIs("batch")
    /\ VTop.a = 0
    /\ VTop.pc < Len(vBatch)
    /\ vCell' = [vCell EXCEPT ![t.c].first = t.v]
    /\ vStack' = Stepped
    /\ UNCHANGED <<vImpl, vLoop, vSlot, vTasks, vBatch, vNum, vAsked, vOut,
                   vFailed>>

\* execute(): current_tasks is destroyed, task by task, each with the setter
\* it holds; then the while loop tests tasks again.
VmBatchEnd ==
    /\ VTopIs("batch")
    /\ VTop.pc = Len(vBatch) \/ VTop.a = 1
    /\ IF vBatch # <<>>
         THEN /\ vBatch' = Tail(vBatch)
              /\ VmRelease(vCell, Head(vBatch).c,
                           [vStack EXCEPT ![Len(vStack)].a = 1])
         ELSE /\ vBatch' = vBatch
              /\ vCell' = vCell
              /\ VmReturn
    /\ UNCHANGED <<vImpl, vTasks, vNum, vAsked, vOut>>

\* SyncSlotTest, its providers about to be built: tree_iterator has parked
\* its listener, numerator has captured i and to.
JoinTestInit ==
    /\ vImpl = "test"
    /\ vLoop = [l \in 1..NLoops |-> FreshLoop]
    /\ vSlot = [s \in {TreeSlot, JoinSlot} |->
                  IF s = TreeSlot
                    THEN [req |-> ProviderAwait(TRUE, 0, 0, RootListener).req,
                          dat |-> 0]
                    ELSE [req |-> 0, dat |-> 0]]
    /\ vCell = <<>>
    /\ vStack = <<VFrame("main", 0, 0, 0, FALSE)>>
    /\ vTasks = <<>>
    /\ vBatch = <<>>
    /\ vNum = [i |-> RangeFrom, to |-> RangeTo]
    /\ vAsked = 0
    /\ vOut = <<>>
    /\ vFailed = FALSE

InitJoinTest ==
    LoopInit /\ TestIdle /\ ResultIdle /\ FanIdle /\ SlotIdle /\ JoinTestInit

NextJoinTest ==
    \/ ~vFailed /\ MainBuild /\ UNCHANGED besideVm
    \/ ~vFailed /\ TreeIteratorWake /\ UNCHANGED <<besideTree, besideVm>>
    \/ ~vFailed /\ NodeIteratorBody /\ UNCHANGED <<besideTree, besideVm>>
    \/ ~vFailed /\ NodeIteratorWake /\ UNCHANGED <<besideTree, besideVm>>
    \/ ~vFailed /\ AfterEndBody /\ UNCHANGED <<besideTree, besideVm>>
    \/ ~vFailed /\ AfterEndWake /\ UNCHANGED <<besideTree, besideVm>>
    \/ ~vFailed /\ ZippingBody /\ UNCHANGED besideVm
    \/ ~vFailed /\ ZippingWake /\ UNCHANGED besideVm
    \/ ~vFailed /\ SetterSecond /\ UNCHANGED besideVm
    \/ ~vFailed /\ Finalizer /\ UNCHANGED besideVm
    \/ ~vFailed /\ TestLoopBody /\ UNCHANGED besideVm
    \/ ~vFailed /\ TestListener /\ UNCHANGED besideVm
    \/ ~vFailed /\ VmExecute /\ UNCHANGED besideVm
    \/ ~vFailed /\ VmRunTask /\ UNCHANGED besideVm
    \/ ~vFailed /\ VmBatchEnd /\ UNCHANGED besideVm

SpecJoinTest == InitJoinTest /\ [][NextJoinTest]_vars

\* ------------------------------------------ slot_example.cpp: SlotExample

\* inner_join(inner_join(range_stream(ex, 1, 100500), tree_stream(root)),
\* iterator_stream(expected)), asked by test_loop and driven by ex.execute().
\* The first join is the join of loop Zipping and slot JoinSlot, the second
\* the join of loop OuterZipping and slot OuterSlot; its pairs are pairs of
\* pairs, and NoPair stands for the nullopt of either half of them.
ExampleTo == 100500
ExpectedExample == <<<<1, 1>>, <<2, 11>>, <<3, 111>>, <<4, 112>>, <<5, 12>>>>

\* The slot a join answers on, and the nullopt of the halves of its cells.
SinkOf(j) == IF j = Zipping THEN JoinSlot ELSE OuterSlot
NoHalf(j) == IF j = Zipping THEN Nullopt ELSE NoPair

\* result<pair<optional<A>, optional<B>>> expected of join j.
ExampleCell(j) ==
    [use |-> 1, first |-> NoHalf(j), second |-> NoHalf(j), j |-> j]

\* What the finalizer of inner_join hands to sink.  The variant answers as
\* soon as one half is there.
ZippedEither(c) ==
    IF c.first # NoHalf(c.j) \/ c.second # NoHalf(c.j)
      THEN <<c.first, c.second>> ELSE NoPair
Zipped(c) ==
    IF c.first # NoHalf(c.j) /\ c.second # NoHalf(c.j)
      THEN <<c.first, c.second>> ELSE NoPair

\* The test: the two joins build their loops, then test_loop is built.
ExampleBuild ==
    /\ VTopIs("main")
    /\ VTop.pc < 2
    /\ CASE VTop.pc = -1 ->
              VmDrive(Built(vLoop, Zipping, 0), Zipping, Stepped)
         [] VTop.pc = 0 ->
              VmDrive(Built(vLoop, OuterZipping, 0), OuterZipping, Stepped)
         [] VTop.pc = 1 ->
              VmDrive(Built(vLoop, TestLoop, 0), TestLoop, Stepped)
    /\ UNCHANGED <<vImpl, vCell, vTasks, vBatch, vNum, vAsked, vOut>>

\* inner_join: the body of zipping, sink.await(...), and its return.
InnerJoinBody ==
    /\ VTopIs("body")
    /\ VTop.a \in {Zipping, OuterZipping}
    /\ CASE VTop.pc = 0 -> VmAwait(vLoop, SinkOf(VTop.a), VTop.a, Stepped)
         [] VTop.pc = 1 -> VmDrive(vLoop, VTop.a, Popped)
    /\ UNCHANGED <<vImpl, vCell, vTasks, vBatch, vNum, vAsked, vOut>>

\* inner_join: the listener of zipping, woken: expected is built (the frame
\* keeps its number in v); a gets the setter of first: range_stream
\* schedules the task that will call it, the first join stores it or wakes
\* on it; b gets the setter of second: the slot of the tree stores it or
\* wakes on it, iterator_stream calls it at once with *i or nullopt and
\* destroys it; expected is destroyed on return.
InnerJoinWake ==
    LET j == VTop.a
        c == Len(vCell) + 1
        v == IF vNum.i < vNum.to THEN vNum.i ELSE Nullopt
        e == IF vNum.at <= Len(ExpectedExample) THEN ExpectedExample[vNum.at]
                                                ELSE NoPair IN
    /\ VTopIs("wake")
    /\ VTop.a \in {Zipping, OuterZipping}
    /\ CASE VTop.pc = 0 /\ j = Zipping ->
              /\ vCell' = Append(vCell,
                                 [ExampleCell(j) EXCEPT !.use = CopyHandle(@)])
              /\ vTasks' = Append(vTasks, [c |-> c, v |-> v])
              /\ vNum' = IF vNum.i < vNum.to
                           THEN [vNum EXCEPT !.i = @ + 1] ELSE vNum
              /\ vStack' = [vStack EXCEPT ![Len(vStack)].pc = 1,
                                          ![Len(vStack)].v = c]
              /\ UNCHANGED <<vLoop, vSlot, vFailed>>
         [] VTop.pc = 0 /\ j = OuterZipping ->
              /\ vCell' = Append(vCell,
                                 [ExampleCell(j) EXCEPT !.use = CopyHandle(@)])
              /\ VmRequest(JoinSlot, c,
                           [vStack EXCEPT ![Len(vStack)].pc = 1,
                                          ![Len(vStack)].v = c])
              /\ UNCHANGED <<vTasks, vNum>>
         [] VTop.pc = 1 /\ j = Zipping ->
              /\ vCell' = [vCell EXCEPT ![VTop.v].use = CopyHandle(@)]
              /\ VmRequest(TreeSlot, VTop.v, Stepped)
              /\ UNCHANGED <<vTasks, vNum>>
         [] VTop.pc = 1 /\ j = OuterZipping ->
              /\ vCell' = [vCell EXCEPT ![VTop.v].second = e]
              /\ vNum' = IF vNum.at <= Len(ExpectedExample)
                           THEN [vNum EXCEPT !.at = @ + 1] ELSE vNum
              /\ vStack' = Stepped
              /\ UNCHANGED <<vLoop, vSlot, vFailed, vTasks>>
         [] VTop.pc = 2 ->
              /\ VmRelease(vCell, VTop.v, Popped)
              /\ UNCHANGED <<vTasks, vNum>>
    /\ UNCHANGED <<vImpl, vBatch, vAsked, vOut>>

\* A setter called by a provider: the tree's with a payload for second of a
\* cell of the first join, the first join's with a pair for first of a cell
\* of the second; it assigns and returns, and the provider call destroys it.
\* vOut records what the first join answered.
ExampleSetter ==
    LET c == VTop.a IN
    /\ VTopIs("data")
    /\ VTop.s \in {TreeSlot, JoinSlot}
    /\ IF VTop.s = TreeSlot
         THEN /\ VmRelease([vCell EXCEPT ![c].second = VTop.v], c, Popped)
              /\ vOut' = vOut
         ELSE /\ VmRelease([vCell EXCEPT ![c].first = VTop.v], c, Popped)
              /\ vOut' = Append(vOut, [s |-> JoinSlot, h |-> c, v |-> VTop.v])
    /\ UNCHANGED <<vImpl, vTasks, vBatch, vNum, vAsked>>

\* ~data_t of expected: the finalizer of inner_join: sink(...); next().
InnerJoinFinalizer ==
    LET j == vCell[VTop.a].j IN
    /\ VTopIs("fin")
    /\ CASE VTop.pc = 0 -> VmDeliver(SinkOf(j), Zipped(vCell[VTop.a]), Stepped)
         [] VTop.pc = 1 -> VmDrive(vLoop, j, Stepped)
         [] VTop.pc = 2 -> VmReturn
    /\ UNCHANGED <<vImpl, vCell, vTasks, vBatch, vNum, vAsked, vOut>>

\* SlotExample: the body of test_loop, stream(listener), and its return.
ExampleLoopBody ==
    /\ VTopIs("body")
    /\ VTop.a = TestLoop
    /\ CASE VTop.pc = 0 ->
              /\ vAsked' = vAsked + 1
              /\ VmRequest(OuterSlot, vAsked + 1, Stepped)
         [] VTop.pc = 1 ->
              /\ vAsked' = vAsked
              /\ VmDrive(vLoop, TestLoop, Popped)
    /\ UNCHANGED <<vImpl, vCell, vTasks, vBatch, vNum, vOut>>

\* SlotExample: the listener of test_loop: if (!item) return;
\* ASSERT_EQ(item->first, item->second); next().
ExampleListener ==
    LET got == [s |-> OuterSlot, h |-> VTop.a, v |-> VTop.v] IN
    /\ VTopIs("data")
    /\ VTop.s = OuterSlot
    /\ CASE VTop.pc = 0 /\ VTop.v = NoPair ->
              /\ vOut' = Append(vOut, got)
              /\ vStack' = Stepped
              /\ UNCHANGED <<vLoop, vSlot, vFailed>>
         [] VTop.pc = 0 /\ VTop.v # NoPair /\ VTop.v[1] # VTop.v[2] ->
              /\ vOut' = Append(vOut, got)
              /\ vFailed' = TRUE
              /\ UNCHANGED <<vLoop, vSlot, vStack>>
         [] VTop.pc = 0 /\ VTop.v # NoPair /\ VTop.v[1] = VTop.v[2] ->
              /\ vOut' = Append(vOut, got)
              /\ VmDrive(vLoop, TestLoop, Stepped)
         [] VTop.pc = 1 ->
              /\ vOut' = vOut
              /\ VmReturn
    /\ UNCHANGED <<vImpl, vCell, vTasks, vBatch, vNum, vAsked>>

\* SlotExample, its providers about to be built: tree_stream has called
\* root.scan, which parked its listener; range_stream has captured i and to
\* (to is the test's, or the 7 that ends the range at 6), iterator_stream
\* the place of begin.
ExampleInit ==
    /\ vImpl = "example"
    /\ vLoop = [l \in 1..NLoops |-> FreshLoop]
    /\ vSlot = [s \in {TreeSlot, JoinSlot, OuterSlot} |->
                  IF s = TreeSlot
                    THEN [req |-> ProviderAwait(TRUE, 0, 0, 1).req, dat |-> 0]
                    ELSE [req |-> 0, dat |-> 0]]
    /\ vCell = <<>>
    /\ vStack = <<[VFrame("main", 0, 0, 0, FALSE) EXCEPT !.pc = -1]>>
    /\ vTasks = <<>>
    /\ vBatch = <<>>
    /\ vNum \in {[i |-> RangeFrom, to |-> t, at |-> 1] :
                   t \in {RangeTo, ExampleTo}}
    /\ vAsked = 0
    /\ vOut = <<>>
    /\ vFailed = FALSE

InitExample ==
    LoopInit /\ TestIdle /\ ResultIdle /\ FanIdle /\ SlotIdle /\ ExampleInit

NextExample ==
    \/ ~vFailed /\ ExampleBuild /\ UNCHANGED besideVm
    \/ ~vFailed /\ ScanWake /\ UNCHANGED <<besideTree, besideVm>>
    \/ ~vFailed /\ ScanBody /\ UNCHANGED <<besideTree, besideVm>>
    \/ ~vFailed /\ AfterEndBody /\ UNCHANGED <<besideTree, besideVm>>
    \/ ~vFailed /\ AfterEndWake /\ UNCHANGED <<besideTree, besideVm>>
    \/ ~vFailed /\ InnerJoinBody /\ UNCHANGED besideVm
    \/ ~vFailed /\ InnerJoinWake /\ UNCHANGED besideVm
    \/ ~vFailed /\ ExampleSetter /\ UNCHANGED besideVm
    \/ ~vFailed /\ InnerJoinFinalizer /\ UNCHANGED besideVm
    \/ ~vFailed /\ ExampleLoopBody /\ UNCHANGED besideVm
    \/ ~vFailed /\ ExampleListener /\ UNCHANGED besideVm
    \/ ~vFailed /\ VmExecute /\ UNCHANGED besideVm
    \/ ~vFailed /\ VmRunTask /\ UNCHANGED besideVm
    \/ ~vFailed /\ VmBatchEnd /\ UNCHANGED besideVm

SpecExample == InitExample /\ [][NextExample]_vars

\* ----------------------------- async_fs_scan_solution.cpp: the tree's size

\* calc_tree_size_async on the fake file system of async_fs_scan_test.cpp,
\* driven by ex.execute().  vCell holds the one result<int>; vLoop is the
\* sequence of the loops built so far, each with the use count of its record
\* and with the stream its body owns; vNum is the root's depth; vAsked counts
\* the get_size calls; vOut is what the test's callback was called with.
DirFanout == 3
ExpectedSize == 81

\* result<int>(callback): one handle, initial_value = int().
FreshSum == [use |-> 1, val |-> 0]
\* *result += size.  The variant forgets the file.
AddedNothing(val, size) == val
Added(val, size) == val + size

\* fake_async_dir::get_dirs and get_files: left and param of the stream.
GetDirs(d) == [left |-> DirFanout - d, param |-> d + 1]
GetFiles(d) == [left |-> d, param |-> d]
\* loop dirs / loop files as constructed: the variable's handle, the flag,
\* and the stream moved into the body.
ScanLoop(kind, stream) ==
    [flag |-> InitFlag, use |-> 1, kind |-> kind, left |-> stream.left,
     param |-> stream.param]

\* A handle of result c is destroyed, the results being cells, above the
\* frames stk: the last one runs ~data_t, which calls the callback.
ResultReleased(cells, c, stk) ==
    LET u == ReleaseHandle(cells[c].use) IN
    [cells |-> [cells EXCEPT ![c].use = u],
     stack |-> IF u = 0 THEN Append(stk, VFrame("fin", 0, c, 0, FALSE))
                        ELSE stk]
\* A handle of loop l is destroyed: the last one destroys the body, and with
\* it the handle of result the body captured.
LoopReleased(loops, cells, l, stk) ==
    LET u == ReleaseHandle(loops[l].use)
        r == ResultReleased(cells, 1, stk) IN
    IF u = 0
      THEN [loops |-> [loops EXCEPT ![l].use = u], cells |-> r.cells,
            stack |-> r.stack]
      ELSE [loops |-> [loops EXCEPT ![l].use = u], cells |-> cells,
            stack |-> stk]

\* FileSystemSyncTest: calc_tree_size_async(fake_async_dir{0, ex}, callback),
\* which builds the result and calls the overload that takes it.
FsMain ==
    /\ VTopIs("main")
    /\ VTop.pc = 1
    /\ vCell' = <<FreshSum>>
    /\ vStack' = Append(Stepped, VFrame("calc", 0, vNum.depth, 0, FALSE))
    /\ UNCHANGED <<vImpl, vLoop, vSlot, vTasks, vBatch, vNum, vAsked, vOut,
                   vFailed>>

\* calc_tree_size_async(root, result), root being a directory of depth a:
\* loop dirs is built, which runs its body; loop files likewise; then files,
\* dirs and the parameter result are destroyed.  The frame keeps the number
\* of dirs in s.
FsCalc ==
    LET l == Len(vLoop) + 1
        held == [vCell EXCEPT ![1].use = CopyHandle(@)]
        files == LoopReleased(vLoop, vCell, VTop.s + 1, Stepped)
        dirs == LoopReleased(vLoop, vCell, VTop.s, Stepped)
        given == ResultReleased(vCell, 1, Popped) IN
    /\ VTopIs("calc")
    /\ CASE VTop.pc = 0 ->
              /\ vCell' = held
              /\ VmDrive(Append(vLoop, ScanLoop("dirs", GetDirs(VTop.a))), l,
                         [vStack EXCEPT ![Len(vStack)].pc = 1,
                                        ![Len(vStack)].s = l])
         [] VTop.pc = 1 ->
              /\ vCell' = held
              /\ VmDrive(Append(vLoop, ScanLoop("files", GetFiles(VTop.a))),
                         l, Stepped)
         [] VTop.pc = 2 ->
              /\ vLoop' = files.loops
              /\ vCell' = files.cells
              /\ vStack' = files.stack
              /\ UNCHANGED <<vSlot, vFailed>>
         [] VTop.pc = 3 ->
              /\ vLoop' = dirs.loops
              /\ vCell' = dirs.cells
              /\ vStack' = dirs.stack
              /\ UNCHANGED <<vSlot, vFailed>>
         [] VTop.pc = 4 ->
              /\ vCell' = given.cells
              /\ vStack' = given.stack
              /\ UNCHANGED <<vLoop, vSlot, vFailed>>
    /\ UNCHANGED <<vImpl, vTasks, vBatch, vNum, vAsked, vOut>>

\* The body of dirs or of files, called with next, a copy of the loop:
\* stream->next(callback) schedules the task that holds the callback, which
\* holds a copy of next; on return next is destroyed and the while loop
\* tests the flag.
FsBody ==
    LET l == VTop.a IN
    /\ VTopIs("body")
    /\ CASE VTop.pc = 0 ->
              /\ vLoop' = [vLoop EXCEPT ![l].use = CopyHandle(CopyHandle(@))]
              /\ vTasks' = Append(vTasks, [k |-> "next", l |-> l, size |-> 0])
              /\ vStack' = Stepped
              /\ UNCHANGED <<vSlot, vFailed>>
         [] VTop.pc = 1 ->
              /\ vTasks' = vTasks
              /\ VmDrive([vLoop EXCEPT ![l].use = ReleaseHandle(@)], l,
                         Popped)
    /\ UNCHANGED <<vImpl, vCell, vBatch, vNum, vAsked, vOut>>

\* execute(): t() for the next task of current_tasks.  A task of get_size
\* calls its callback, which adds the size.  A task of a stream calls the
\* callback with an item, --left, or with nullptr, on which the callback
\* returns at once.
FsRunTask ==
    LET t == vBatch[VTop.pc + 1] IN
    /\ VTopIs("batch")
    /\ VTop.a = 0
    /\ VTop.pc < Len(vBatch)
    /\ CASE t.k = "size" ->
              /\ vCell' = [vCell EXCEPT ![1].val = Added(@, t.size)]
              /\ vStack' = Stepped
              /\ vLoop' = vLoop
         [] t.k = "next" /\ vLoop[t.l].left > 0 ->
              /\ vLoop' = [vLoop EXCEPT ![t.l].left = @ - 1]
              /\ vStack' = Append(Stepped, VFrame("cb", 0, t.l, 0, FALSE))
              /\ vCell' = vCell
         [] t.k = "next" /\ vLoop[t.l].left <= 0 ->
              /\ vStack' = Stepped
              /\ UNCHANGED <<vLoop, vCell>>
    /\ UNCHANGED <<vImpl, vSlot, vTasks, vBatch, vNum, vAsked, vOut, vFailed>>

\* The callback of loop a, called with an item.  Of dirs: the recursive
\* call, with a copy of result, then next().  Of files: get_size schedules
\* the task that holds a copy of result, then next().
FsCallback ==
    LET l == VTop.a
        held == [vCell EXCEPT ![1].use = CopyHandle(@)] IN
    /\ VTopIs("cb")
    /\ CASE VTop.pc = 0 /\ vLoop[l].kind = "dirs" ->
              /\ vCell' = held
              /\ vStack' = Append(Stepped,
                                  VFrame("calc", 0, vLoop[l].param, 0, FALSE))
              /\ UNCHANGED <<vLoop, vSlot, vFailed, vTasks, vAsked>>
         [] VTop.pc = 0 /\ vLoop[l].kind = "files" ->
              /\ vCell' = held
              /\ vTasks' = Append(vTasks, [k |-> "size", l |-> 0,
                                           size |-> vLoop[l].param])
              /\ vAsked' = vAsked + 1
              /\ vStack' = Stepped
              /\ UNCHANGED <<vLoop, vSlot, vFailed>>
         [] VTop.pc = 1 ->
              /\ VmDrive(vLoop, l, Stepped)
              /\ UNCHANGED <<vCell, vTasks, vAsked>>
         [] VTop.pc = 2 ->
              /\ VmReturn
              /\ UNCHANGED <<vCell, vTasks, vAsked>>
    /\ UNCHANGED <<vImpl, vBatch, vNum, vOut>>

\* execute(): current_tasks is destroyed, task by task: a task of a stream
\* with the copy of next its callback holds, a task of get_size with its
\* copy of result; then the while loop tests tasks again.
FsBatchEnd ==
    LET t == Head(vBatch)
        marked == [vStack EXCEPT ![Len(vStack)].a = 1]
        r == ResultReleased(vCell, 1, marked)
        n == IF t.k = "next"
               THEN LoopReleased(vLoop, vCell, t.l, marked)
               ELSE [loops |-> vLoop, cells |-> r.cells, stack |-> r.stack] IN
    /\ VTopIs("batch")
    /\ VTop.pc = Len(vBatch) \/ VTop.a = 1
    /\ IF vBatch # <<>>
         THEN /\ vBatch' = Tail(vBatch)
              /\ vLoop' = n.loops
              /\ vCell' = n.cells
              /\ vStack' = n.stack
              /\ UNCHANGED <<vSlot, vFailed>>
         ELSE /\ VmReturn
              /\ UNCHANGED <<vBatch, vCell>>
    /\ UNCHANGED <<vImpl, vTasks, vNum, vAsked, vOut>>

\* ~data_t of the result: callback(data), the test's: ASSERT_EQ(size, 81).
FsFinalizer ==
    /\ VTopIs("fin")
    /\ vOut' = Append(vOut, vCell[VTop.a].val)
    /\ vFailed' = (vCell[VTop.a].val # ExpectedSize)
    /\ vStack' = Popped
    /\ UNCHANGED <<vImpl, vLoop, vSlot, vCell, vTasks, vBatch, vNum, vAsked>>

\* FileSystemSyncTest about to call calc_tree_size_async: ex is empty.  The
\* root is the test's fake_async_dir{0, ex}, or one of a greater depth.
FsInit ==
    /\ vImpl = "scan"
    /\ vLoop = <<>>
    /\ vSlot = <<>>
    /\ vCell = <<>>
    /\ vStack = <<[VFrame("main", 0, 0, 0, FALSE) EXCEPT !.pc = 1]>>
    /\ vTasks = <<>>
    /\ vBatch = <<>>
    /\ vNum \in {[depth |-> d] : d \in 0..DirFanout}
    /\ vAsked = 0
    /\ vOut = <<>>
    /\ vFailed = FALSE

InitFs == LoopInit /\ TestIdle /\ ResultIdle /\ FanIdle /\ SlotIdle /\ FsInit

NextFs ==
    \/ ~vFailed /\ FsMain /\ UNCHANGED besideVm
    \/ ~vFailed /\ FsCalc /\ UNCHANGED besideVm
    \/ ~vFailed /\ FsBody /\ UNCHANGED besideVm
    \/ ~vFailed /\ FsCallback /\ UNCHANGED besideVm
    \/ ~vFailed /\ FsFinalizer /\ UNCHANGED besideVm
    \/ ~vFailed /\ VmExecute /\ UNCHANGED besideVm
    \/ ~vFailed /\ FsRunTask /\ UNCHANGED besideVm
    \/ ~vFailed /\ FsBatchEnd /\ UNCHANGED besideVm

SpecFs == InitFs /\ [][NextFs]_vars

\* ------------------------------------- single_thread_executor on its own

\* An executor whose tasks do nothing but schedule further tasks.  vTasks is
\* tasks and vBatch is current_tasks, both holding the numbers the tasks were
\* scheduled under; vAsked counts the schedule() calls, vNum the execute()
\* calls that have returned, and vOut is the tasks run, in order.

\* while (!tasks.empty()).  The variant is an if: one batch and no more.
ExecuteOnce(queue, batches) == queue # <<>> /\ batches = 0
ExecuteAgain(queue, batches) == queue # <<>>

\* schedule(task), called by the main program outside execute() or by a
\* task: tasks.emplace_back(move(task)).
ExSchedule ==
    /\ \/ VTopIs("main")
       \/ VTopIs("task")
    /\ vAsked < MaxScheduled
    /\ vAsked' = vAsked + 1
    /\ vTasks' = Append(vTasks, vAsked + 1)
    /\ UNCHANGED <<vImpl, vLoop, vSlot, vCell, vStack, vBatch, vNum, vOut,
                   vFailed>>

\* The main program calls execute().
ExExecute ==
    /\ VTopIs("main")
    /\ vNum < MaxExecutes
    /\ vStack' = Append(vStack, VFrame("execute", 0, 0, 0, FALSE))
    /\ UNCHANGED <<vImpl, vLoop, vSlot, vCell, vTasks, vBatch, vNum, vAsked,
                   vOut, vFailed>>

\* execute(): the while loop tests tasks: current_tasks takes its content,
\* or execute() returns.  The frame counts the batches in pc.
ExWhile ==
    /\ VTopIs("execute")
    /\ IF ExecuteAgain(vTasks, VTop.pc)
         THEN /\ vBatch' = vTasks
              /\ vTasks' = <<>>
              /\ vStack' = Append(Stepped, VFrame("batch", 0, 0, 0, FALSE))
              /\ vNum' = vNum
         ELSE /\ vStack' = Popped
              /\ vNum' = vNum + 1
              /\ UNCHANGED <<vBatch, vTasks>>
    /\ UNCHANGED <<vImpl, vLoop, vSlot, vCell, vAsked, vOut, vFailed>>

\* execute(): t() for the next task of current_tasks.
ExRunTask ==
    LET t == vBatch[VTop.pc + 1] IN
    /\ VTopIs("batch")
    /\ VTop.pc < Len(vBatch)
    /\ vStack' = Append(Stepped, VFrame("task", 0, t, 0, FALSE))
    /\ vOut' = Append(vOut, t)
    /\ UNCHANGED <<vImpl, vLoop, vSlot, vCell, vTasks, vBatch, vNum, vAsked,
                   vFailed>>

\* A task returns to execute().
ExTaskReturn ==
    /\ VTopIs("task")
    /\ vStack' = Popped
    /\ UNCHANGED <<vImpl, vLoop, vSlot, vCell, vTasks, vBatch, vNum, vAsked,
                   vOut, vFailed>>

\* execute(): the for loop is over and current_tasks is destroyed.
ExBatchEnd ==
    /\ VTopIs("batch")
    /\ VTop.pc = Len(vBatch)
    /\ vBatch' = <<>>
    /\ vStack' = Popped
    /\ UNCHANGED <<vImpl, vLoop, vSlot, vCell, vTasks, vNum, vAsked, vOut,
                   vFailed>>

\* An executor just constructed: tasks is empty.
ExInit ==
    /\ vImpl = "executor"
    /\ vLoop = <<>>
    /\ vSlot = <<>>
    /\ vCell = <<>>
    /\ vStack = <<VFrame("main", 0, 0, 0, FALSE)>>
    /\ vTasks = <<>>
    /\ vBatch = <<>>
    /\ vNum = 0
    /\ vAsked = 0
    /\ vOut = <<>>
    /\ vFailed = FALSE

InitExecutor ==
    LoopInit /\ TestIdle /\ ResultIdle /\ FanIdle /\ SlotIdle /\ ExInit

NextExecutor ==
    \/ ExSchedule /\ UNCHANGED besideVm
    \/ ExExecute /\ UNCHANGED besideVm
    \/ ExWhile /\ UNCHANGED besideVm
    \/ ExRunTask /\ UNCHANGED besideVm
    \/ ExTaskReturn /\ UNCHANGED besideVm
    \/ ExBatchEnd /\ UNCHANGED besideVm

SpecExecutor == InitExecutor /\ [][NextExecutor]_vars

\* ------------------------------- the tree's size, callbacks in any order

\* calc_tree_size_async as above, with the deferred callbacks of next and
\* get_size run one at a time in an order the interfaces of
\* async_fs_scan_problem.h leave open, and each destroyed when it has run.
\* The root is a directory MaxHeight levels or less above the deepest ones.

\* execute(), for an executor that runs the scheduled tasks in any order: a
\* task is taken out of tasks and becomes a batch of its own; with no task
\* left, execute() returns.
AnyExecute ==
    /\ VTopIs("main")
    /\ VTop.pc = 2
    /\ IF vTasks # <<>>
         THEN \E j \in 1..Len(vTasks) :
                /\ vBatch' = <<vTasks[j]>>
                /\ vTasks' = SubSeq(vTasks, 1, j - 1)
                               \o SubSeq(vTasks, j + 1, Len(vTasks))
                /\ vStack' = Append(vStack, VFrame("batch", 0, 0, 0, FALSE))
         ELSE /\ vStack' = Popped
              /\ UNCHANGED <<vBatch, vTasks>>
    /\ UNCHANGED <<vImpl, vLoop, vSlot, vCell, vNum, vAsked, vOut, vFailed>>

FsAnyInit ==
    /\ vImpl = "scan"
    /\ vLoop = <<>>
    /\ vSlot = <<>>
    /\ vCell = <<>>
    /\ vStack = <<[VFrame("main", 0, 0, 0, FALSE) EXCEPT !.pc = 1]>>
    /\ vTasks = <<>>
    /\ vBatch = <<>>
    /\ vNum \in {[depth |-> d] : d \in (DirFanout - MaxHeight)..DirFanout}
    /\ vAsked = 0
    /\ vOut = <<>>
    /\ vFailed = FALSE

InitFsAny ==
    LoopInit /\ TestIdle /\ ResultIdle /\ FanIdle /\ SlotIdle /\ FsAnyInit

NextFsAny ==
    \/ ~vFailed /\ FsMain /\ UNCHANGED besideVm
    \/ ~vFailed /\ FsCalc /\ UNCHANGED besideVm
    \/ ~vFailed /\ FsBody /\ UNCHANGED besideVm
    \/ ~vFailed /\ FsCallback /\ UNCHANGED besideVm
    \/ ~vFailed /\ FsFinalizer /\ UNCHANGED besideVm
    \/ ~vFailed /\ AnyExecute /\ UNCHANGED besideVm
    \/ ~vFailed /\ FsRunTask /\ UNCHANGED besideVm
    \/ ~vFailed /\ FsBatchEnd /\ UNCHANGED besideVm

SpecFsAny == InitFsAny /\ [][NextFsAny]_vars

\* ------------------------------ sync_fs_scan_solution.cpp: the tree's size

\* The fake file system of sync_fs_scan_test.cpp.
SyncFanout == 3
\* fake_sync_dir::get_dirs and get_files: left and param of the stream.  The
\* variant holds files of size 1.
SyncGetFilesUnit(d) == [left |-> d, param |-> 1]
SyncGetFiles(d) == [left |-> d, param |-> d]
SyncGetDirs(d) == [left |-> SyncFanout - d, param |-> d + 1]
\* fake_sync_stream::next: the item, if any, and the stream afterwards.
SyncNext(stream) ==
    IF stream.left > 0
      THEN [some |-> TRUE, param |-> stream.param,
            stream |-> [stream EXCEPT !.left = @ - 1]]
      ELSE [some |-> FALSE, param |-> 0, stream |-> stream]

\* calc_tree_size_sync(root), root being a directory of depth d: the while
\* loop over the stream of directories from result on, then the while loop
\* over the stream of files.
RECURSIVE calc_tree_size_sync(_)
RECURSIVE WhileDirs(_, _)
RECURSIVE WhileFiles(_, _)
WhileDirs(result, stream) ==
    LET n == SyncNext(stream) IN
    IF n.some THEN WhileDirs(result + calc_tree_size_sync(n.param), n.stream)
              ELSE result
WhileFiles(result, stream) ==
    LET n == SyncNext(stream) IN
    IF n.some THEN WhileFiles(result + n.param, n.stream)
              ELSE result
calc_tree_size_sync(d) ==
    WhileFiles(WhileDirs(0, SyncGetDirs(d)), SyncGetFiles(d))

\* ------------------------------------------------------- claims on the loop

\* No drive routine of the loop is on the call stack, the constructor's included.
Quiescent == stack = <<>> /\ pc # "new"
\* The handles that exist: the constructed variable, the K of every body
\* activation, the capture of every task not yet destroyed.
Holders == (IF ctorVar THEN 1 ELSE 0) + Depth(stack) + Len(tasks) + Len(current)
\* This step is a call of K(): from inside a body, from outside any body.
StepSyncCall == kSync' = kSync + 1
StepCallK == kSync' + kAsync' = kSync + kAsync + 1
\* This step is the return of the body activation on top of the stack.
StepBodyReturn == TopIs("body") /\ kSync' = kSync /\ stack' # stack
\* The frames of the caller during the K() call this step makes.
CallerFrames == IF stack = <<>> THEN <<>> ELSE Counted

\* Under Spec the use count is the number of handles, and the drive routine only ever runs
\* on a handle that exists.
HandlesCounted == useCount = Holders /\ (stack # <<>> => alive)

\* C1: body invocations of one loop never overlap: at most one activation of
\* the body is on the call stack at any time, however the body uses K.
C1_BodyNeverOverlaps == Depth(stack) <= 1

\* C2: when K() was called only synchronously from inside the body, N times in
\* all, and the loop has stopped, the body was invoked exactly N + 1 times.
C2_SyncCallsGiveNPlusOne ==
    (Quiescent /\ kAsync = 0) => bodyCalls = kSync + 1
C2_Witness ==
    Quiescent /\ kAsync = 0 /\ kSync >= 2 /\ bodyCalls = kSync + 1

\* C3: a K() call made while the body executes sets the flag to false and
\* returns at once without invoking the body; when that body invocation returns
\* the drive routine sets the flag to true and invokes the body again.
C3_SyncCallOnlyClearsFlag ==
    /\ [][StepSyncCall =>
            /\ flag' = FALSE
            /\ bodyCalls' = bodyCalls
            /\ stack' = Counted]_vars
    /\ [][(StepBodyReturn /\ Top.sync > 0) =>
            /\ flag' = TRUE
            /\ bodyCalls' = bodyCalls + 1]_vars

\* C4: a K() call made while no body invocation is in progress finds the flag
\* false, sets it to true and invokes the body inside that call: the body's
\* frame is above the frame of the drive routine the call entered.
C4_DeferredCallRunsBody ==
    [][(StepCallK /\ ~BodyActive) =>
         /\ flag = FALSE
         /\ flag' = TRUE
         /\ bodyCalls' = bodyCalls + 1
         /\ stack' = CallerFrames \o <<DriveFrame, BodyFrame(bodyCalls')>>]_vars
C4_Witness ==
    /\ Len(stack) = 3
    /\ stack[1].kind = "task" /\ stack[1].sync = 1
    /\ stack[2].kind = "drive"
    /\ stack[3].kind = "body" /\ stack[3].n > 1
    /\ flag

C7_ConstructorRunsBody ==
    pc \notin {"new", "ctor"} =>
        /\ ctorBodyCalls >= 1
        /\ ~firstCalledK => ctorBodyCalls = 1
C7_Witness ==
    pc = "idle" /\ ~firstCalledK /\ ctorBodyCalls = 1 /\ bodyCalls > 1

\* C8: the shared record is alive exactly while a handle to it exists, and
\* once it is released the body is never invoked again.
C8_RecordLivesWhileHeld ==
    /\ [](alive <=> Holders > 0)
    /\ [][~alive => bodyCalls' = bodyCalls]_vars
C8_Witness ==
    ~alive /\ Holders = 0 /\ Quiescent /\ bodyCalls >= 2 /\ kAsync >= 1

\* ------------------------------------------------------ claims on BasicTest

\* The sequence s is 1, 2, ..., n.
IsUpto(s, n) == Len(s) = n /\ \A i \in 1..n : s[i] = i
Max(a, b) == IF a >= b THEN a ELSE b
TestShape == syncUpTo = SyncItems /\ endAt = EndValue
TestOver == pc = "idle" /\ ~ctorVar

\* C6: with items 1..5 answered inside the body and 6..9 and end-of-stream
\* deferred, the loop observes 1, 2, ..., 9 in this order, observes
\* end-of-stream only after 9 items, and the depth counter never reaches 2;
\* the test runs to its end without a failed assertion.  The order and the
\* depth bound hold for every smaller stream shape as well.
C6_StreamInOrder ==
    /\ depth < DepthLimit
    /\ IsUpto(seen, Len(seen))
    /\ eos => Len(seen) = Max(syncUpTo, endAt - 1)
    /\ TestShape => ~failed /\ Len(seen) <= 9 /\ (eos => IsUpto(seen, 9))
    /\ TestOver => eos
C6_Witness ==
    TestShape /\ TestOver /\ eos /\ IsUpto(seen, 9) /\ depth = 0 /\ ~failed

\* ------------------------------------------------ claims on the result cell

\* C9: the finalizer of a result cell is invoked exactly once: not while a
\* handle to the cell (a copy or a setter) exists, and within the very
\* operation that destroys the last handle.
C9_FinalizerOnLastDrop ==
    /\ rOwners # {} => finCalls = 0
    /\ rOwners = {} => finCalls = 1
C9_Witness ==
    /\ rOwners = {}
    /\ finCalls = 1
    /\ rNext >= 4
    /\ \E w \in rWriters : w > 1

\* C10: the finalizer receives, field by field, the value assigned last through
\* any handle, whatever the order of assignments and destructions.
C10_FinalizerGetsLastValue ==
    /\ rOwners # {} => rData = rLast
    /\ finCalls >= 1 => finValue = rLast
C10_Witness ==
    /\ finCalls = 1
    /\ Cardinality(rWriters) >= 2
    /\ finValue = rLast
    /\ finValue[1] # rInit[1]
    /\ finValue[2] # rInit[2]

\* ------------------------------------------------------ claims on the join

\* C11: with one setter per field handed to two independent sources, the
\* finalizer of the pair does not run before both sources have answered and
\* destroyed their setters and the creator has dropped its handle; it then
\* runs once and receives the two answers, whichever source answered first.
C11_FanInWaitsForBoth ==
    /\ finCalls >= 1 =>
          /\ finCalls = 1
          /\ rOwners = {}
          /\ Len(fanOrder) = 2
          /\ finValue = fanVals
    /\ (rOwners = {} /\ rNext = 4) => finCalls = 1
C11_Witness ==
    /\ finCalls = 1
    /\ fanVals = <<10, 20>>
    /\ finValue = <<10, 20>>
    /\ fanOrder = <<2, 1>>

\* ------------------------------------------------ claims on accumulate

\* execute() has returned.
ExecuteReturned == pc = "idle" /\ ~ctorVar /\ tasks = <<>>
\* s holds 0, 1, ..., n - 1.
IsStream(s, n) == Len(s) = n /\ \A i \in 1..n : s[i] = i - 1

\* C12: when the loop that captured a result cell ends on end-of-stream, the
\* record of the loop goes and the cell with it: the finalizer is invoked
\* once, with the items in stream order, and has been by the time execute()
\* returns.
C12_LoopEndReleasesCell ==
    /\ [](/\ finCalls <= 1
          /\ (finCalls = 1) <=> ~alive
          /\ finCalls = 1 => eos /\ rOwners = {} /\ IsStream(finValue, endAt)
          /\ ExecuteReturned => finCalls = 1)
    /\ [][finCalls' # finCalls => pc = "exec" /\ eos]_vars
C12_Witness ==
    /\ ExecuteReturned
    /\ endAt = StreamItems
    /\ finCalls = 1
    /\ finValue = <<0, 1, 2>>

\* ------------------------------------------------------ claims on the slot

\* The use count is the slot objects and the pointers locked by calls in
\* progress.
SlotCounted ==
    ~sFailed =>
      /\ sUse = sHandles + Cardinality({i \in 1..Len(sStack) : sStack[i].lock})
      /\ sAlive = (sUse > 0)

\* The step is one call of the operation named.
StepOp(name) == sOp'.op = name
\* The step invokes listener cb of the kind given and nothing else: one frame
\* more, cb on top, nothing done in it yet.
Invokes(kind, cb) ==
    /\ Len(sStack') = Len(sStack) + 1
    /\ sStack'[Len(sStack')].kind = kind
    /\ sStack'[Len(sStack')].cb = cb
    /\ sStack'[Len(sStack')].ops = 0
\* The step invokes no listener.
InvokesNone ==
    /\ Len(sStack') <= Len(sStack)
    /\ rLog' = rLog
    /\ hLog' = hLog

\* C13: request(h) while no data listener is registered stores h; a parked
\* request listener is taken out of the slot and invoked with false, and
\* where none is parked the call invokes nothing.
C13_RequestWakesParked ==
    [][(StepOp("request") /\ awaitsData = 0) =>
         /\ ~sFailed'
         /\ awaitsData' = nextH
         /\ awaitsRequest' = 0
         /\ IF awaitsRequest # 0
              THEN /\ Invokes("request", awaitsRequest)
                   /\ rLog' = [rLog EXCEPT ![awaitsRequest] =
                                  Append(@, Invoked(FALSE, "request"))]
                   /\ hLog' = Append(hLog, <<>>)
              ELSE /\ Len(sStack') = Len(sStack)
                   /\ rLog' = rLog
                   /\ hLog' = Append(hLog, <<>>)]_vars
C13_Witness ==
    /\ sOp.op = "request"
    /\ STopIs("request")
    /\ STop.via = "request"
    /\ ~STop.term
    /\ awaitsRequest = 0
    /\ awaitsData = nextH - 1

\* C14: await(r) on a slot whose record is alive and holds no parked request
\* listener invokes r with false at once and does not store it where a data
\* listener is registered, and otherwise stores r and invokes nothing.
C14_AwaitAnswersOrParks ==
    [][(StepOp("await") /\ sUse > 0 /\ awaitsRequest = 0) =>
         /\ ~sFailed'
         /\ awaitsData' = awaitsData
         /\ IF awaitsData # 0
              THEN /\ Invokes("request", nextR)
                   /\ awaitsRequest' = 0
                   /\ rLog' = Append(rLog, <<Invoked(FALSE, "await")>>)
                   /\ hLog' = hLog
              ELSE /\ awaitsRequest' = nextR
                   /\ Len(sStack') = Len(sStack)
                   /\ rLog' = Append(rLog, <<>>)
                   /\ hLog' = hLog]_vars
C14_Witness ==
    /\ sOp.op = "await"
    /\ STopIs("request")
    /\ STop.via = "await"
    /\ ~STop.term
    /\ STop.cb = nextR - 1
    /\ awaitsRequest = 0
    /\ awaitsData # 0

\* What await does on a slot that is gone: r is invoked with true within the
\* call and nothing is stored.
AnswersTerminated ==
    /\ Invokes("request", nextR)
    /\ sStack'[Len(sStack')].term
    /\ rLog' = Append(rLog, <<Invoked(TRUE, "await")>>)
    /\ UNCHANGED <<awaitsRequest, awaitsData, hLog, sFailed>>

\* C15, as claimed: once the last slot object is destroyed every await(r)
\* invokes r with true at once and stores nothing.
C15_AwaitAfterLastDrop ==
    [][(StepOp("await") /\ sHandles = 0) => AnswersTerminated]_vars
\* C15, as the code has it: once the record of the slot is destroyed (the last
\* slot object is destroyed and every provider call that had locked the
\* record has returned) every await(r) invokes r with true at once and stores
\* nothing, however many times.
C15_AwaitOnDeadRecord ==
    [][(StepOp("await") /\ sUse = 0) => AnswersTerminated]_vars
C15_Witness ==
    /\ sUse = 0
    /\ sOp.op = "await"
    /\ Len(rLog) >= 2
    /\ rLog[Len(rLog)] = <<Invoked(TRUE, "await")>>
    /\ rLog[Len(rLog) - 1] = <<Invoked(TRUE, "await")>>

C17_DeliverInvokesOnce ==
    /\ [][(StepOp("deliver") /\ sUse > 0 /\ awaitsData # 0) =>
             /\ ~sFailed'
             /\ awaitsData' = 0
             /\ Invokes("data", awaitsData)
             /\ sStack'[Len(sStack')].v = sOp'.v
             /\ hLog' = [hLog EXCEPT ![awaitsData] = <<sOp'.v>>]
             /\ rLog' = rLog]_vars
    /\ [][(StepOp("return") /\ STopIs("data") /\ awaitsData' # 0) =>
             awaitsData' > STop.cb]_vars
    /\ [](\A h \in 1..Len(hLog) : Len(hLog[h]) <= 1)
C17_Witness ==
    /\ sOp.op = "return"
    /\ sStack = <<>>
    /\ sAlive
    /\ awaitsData = 0
    /\ hLog = <<<<2>>>>

\* C18: while the delivered listener runs and has registered nothing, no data
\* listener is registered; a request made from inside it meets no assert and
\* leaves its listener registered, and the next deliver invokes that one.
C18_NestedRequestIsLegal ==
    /\ []((STopIs("data") /\ STop.ops = 0) => awaitsData = 0)
    /\ [][(StepOp("request") /\ STopIs("data") /\ awaitsData = 0) =>
             ~sFailed' /\ awaitsData' = nextH]_vars
    /\ [][(StepOp("deliver") /\ sUse > 0 /\ awaitsData # 0
                             /\ \E i \in 1..Len(sStack) :
                                   sStack[i].kind = "data") =>
             Invokes("data", awaitsData)]_vars
C18_Witness ==
    /\ ~sFailed
    /\ Len(sStack) = 2
    /\ sStack[1].kind = "data"
    /\ sStack[1].cb = 1
    /\ sStack[2].kind = "data"
    /\ sStack[2].cb = 2
    /\ hLog = <<<<1>>, <<2>>>>

\* C19: whichever of request(h) and await(r) comes first, r is invoked with
\* false when the second of the two is made, and never again; h is then the
\* registered data listener and the deliver(v) that follows invokes it with v.
C19_RendezvousEitherOrder ==
    /\ [][(StepOp("await") /\ sUse > 0 /\ awaitsData # 0) =>
             /\ rLog' = Append(rLog, <<Invoked(FALSE, "await")>>)
             /\ awaitsData' = awaitsData
             /\ hLog'[awaitsData] = <<>>]_vars
    /\ [][(StepOp("request") /\ awaitsRequest # 0) =>
             /\ rLog'[awaitsRequest] = <<Invoked(FALSE, "request")>>
             /\ awaitsData' = nextH
             /\ hLog'[nextH] = <<>>]_vars
    /\ [][(StepOp("deliver") /\ sUse > 0 /\ awaitsData # 0) =>
             hLog'[awaitsData] = <<sOp'.v>>]_vars
    /\ [](\A r \in 1..Len(rLog) : Len(rLog[r]) <= 1)
C19_Witness ==
    /\ ~sFailed
    /\ \E r1, r2 \in 1..Len(rLog) :
          /\ rLog[r1] = <<Invoked(FALSE, "await")>>
          /\ rLog[r2] = <<Invoked(FALSE, "request")>>
    /\ Len(hLog) = 2
    /\ Len(hLog[1]) = 1
    /\ Len(hLog[2]) = 1

\* C20: a request listener that has just been invoked with false, from await
\* or from request, finds the record alive and a data listener registered
\* (the one of the request that woke it, where request invoked it); a deliver
\* made first thing inside it meets no assert and invokes that data listener.
C20_DataListenerWaitsAtWake ==
    /\ []((~sFailed /\ STopIs("request") /\ ~STop.term /\ STop.ops = 0) =>
             /\ sUse > 0
             /\ awaitsData # 0
             /\ hLog[awaitsData] = <<>>
             /\ STop.via \in {"await", "request"}
             /\ STop.via = "request" => awaitsData = nextH - 1)
    /\ [][(StepOp("deliver") /\ STopIs("request") /\ ~STop.term
                             /\ STop.ops = 0) =>
             /\ ~sFailed'
             /\ Invokes("data", awaitsData)
             /\ hLog' = [hLog EXCEPT ![awaitsData] = <<sOp'.v>>]]_vars
C20_Witness ==
    /\ sOp.op = "deliver"
    /\ Len(sStack) >= 2
    /\ STopIs("data")
    /\ STop.ops = 0
    /\ sStack[Len(sStack) - 1].kind = "request"
    /\ sStack[Len(sStack) - 1].via = "request"
    /\ sStack[Len(sStack) - 1].ops = 1
    /\ STop.cb = nextH - 1

\* ------------------------------------------- claims on the slot's contract

\* C22: await on a live slot that holds a parked request listener, and request
\* on a slot that holds a registered data listener, end the program at the
\* assert and leave the listener that was there in place.
C22_SecondListenerFailsFast ==
    /\ [][(StepOp("await") /\ sUse > 0 /\ awaitsRequest # 0) =>
             /\ sFailed'
             /\ awaitsRequest' = awaitsRequest
             /\ Len(sStack') = Len(sStack)
             /\ rLog' = Append(rLog, <<>>)
             /\ hLog' = hLog]_vars
    /\ [][(StepOp("request") /\ awaitsData # 0) =>
             /\ sFailed'
             /\ awaitsData' = awaitsData
             /\ Len(sStack') = Len(sStack)
             /\ rLog' = rLog
             /\ hLog' = Append(hLog, <<>>)]_vars

Unanswered == {k \in 1..Len(hLog) : hLog[k] = <<>>}

C24_UnusedStreamShutsDown ==
    nextH = 1 =>
      /\ bodyCalls <= 1
      /\ sHandles = 0 =>
           /\ bodyCalls = 1
           /\ rLog = <<<<Invoked(TRUE, "dtor")>>>>
           /\ stack = <<>> => ~alive /\ useCount = 0
\* The slot dropped unused, the listener back from its last call.
C24_Witness ==
    /\ nextH = 1
    /\ sHandles = 0
    /\ stack = <<>>
    /\ sOp.op = "return"
    /\ ~alive

\* ------------------------------------------- claims on the loop's failures

C30_ThrowLeavesFlagSet ==
    [][~bodyThrew /\ bodyThrew' => flag' /\ ~BodyActive']_vars
\* C30: a body that throws leaves the flag as it stood, true unless the body
\* had called K() itself, with no body active; while none is, nothing but a
\* call of K() changes it afterwards, and with the flag left true the next
\* call of K() clears it without running the body.
C30_ThrowLeavesFlagAsItWas ==
    /\ [][~bodyThrew /\ bodyThrew' =>
            /\ flag' = flag
            /\ ~BodyActive'
            /\ (Top.sync = 0 => flag')]_vars
    /\ [][bodyThrew /\ ~BodyActive /\ ~StepCallK => flag' = flag]_vars
    /\ [][bodyThrew /\ flag /\ ~BodyActive /\ StepCallK =>
            ~flag' /\ bodyCalls' = bodyCalls]_vars
\* After the throw: the flag set, no body active, K still held.
C30_Witness ==
    /\ bodyThrew
    /\ flag
    /\ ~BodyActive
    /\ alive
    /\ ctorVar

\* ------------------------------------------------- claims on the streams

\* What the j-th request to the tree stream is answered with.
PreOrder(j) == IF j <= Len(Payload) THEN Payload[j] ELSE Nullopt

\* C25: the tree provider answers the consumer's j-th request with the j-th
\* payload in pre-order, 1, 11, 111, 112, 12, and with end-of-stream from the
\* sixth request on: one answer for each request, given by the time control is
\* back at the consumer's top level, no contract of the slot being broken.
C25_TreeInPreOrder ==
    /\ ~vFailed
    /\ Len(vOut) <= vAsked
    /\ vAsked <= Len(vOut) + 1
    /\ vStack = <<>> => Len(vOut) = vAsked
    /\ \A j \in 1..Len(vOut) : vOut[j] = [h |-> j, v |-> PreOrder(j)]
    /\ \A l \in 1..NLoops : vLoop[l].built <= 1
\* The whole tree and two ends of stream answered.
C25_Witness ==
    /\ vStack = <<>>
    /\ vAsked = 7
    /\ Len(vOut) = 7
    /\ vOut[5].v = 12
    /\ vOut[7].v = Nullopt

\* The values the consumer's listeners received, in order.
Items == [j \in 1..Len(vOut) |-> vOut[j].v]
\* s begins t.
Begins(s, t) == Len(s) <= Len(t) /\ \A j \in 1..Len(s) : s[j] = t[j]

\* C27: the join of the deferred range 1..6 with the tree stream delivers
\* (1,1), (2,11), (3,111), (4,112), (5,12), (6,end) and then end-of-stream, one
\* delivery for each request of the test, all of them made by the time
\* execute() returns, and no assertion fails.
C27_JoinDeliversSixPairsThenEnd ==
    /\ ~vFailed
    /\ Begins(Items, Append(ExpectedPairs, NoPair))
    /\ \A j \in 1..Len(vOut) : vOut[j].h = j
    /\ Len(vOut) <= vAsked
    /\ vStack = <<>> => Items = Append(ExpectedPairs, NoPair) /\ vAsked = 7
\* execute() has returned, seven deliveries made.
C27_Witness ==
    /\ vStack = <<>>
    /\ Len(vOut) = 7
    /\ vOut[6].v = <<6, Nullopt>>
    /\ vOut[7].v = NoPair
    /\ vNum.i = RangeTo

\* The values answered on slot s in SlotExample, in order.
AnsweredOn(s) ==
    LET on == SelectSeq(vOut, LAMBDA e : e.s = s) IN
    [j \in 1..Len(on) |-> on[j].v]
\* What the pair join answers: the five pairs, then end-of-stream.
FivePairsThenEnd == Append(ExpectedExample, NoPair)

\* C26: the pair join of the range 1..6 (and of the test's longer range) with
\* the pre-order tree stream answers (1,1), (2,11), (3,111), (4,112), (5,12)
\* and then end-of-stream, in this order; the test that compares them with the
\* expected pairs receives five equal pairs and the end, and no assertion
\* fails; all of it by the time execute() returns.
C26_InnerJoinEndsWithEitherInput ==
    /\ ~vFailed
    /\ Begins(AnsweredOn(JoinSlot), FivePairsThenEnd)
    /\ Len(AnsweredOn(OuterSlot)) <= Len(AnsweredOn(JoinSlot))
    /\ \A j \in 1..Len(AnsweredOn(OuterSlot)) :
         AnsweredOn(OuterSlot)[j] =
           IF j <= Len(ExpectedExample)
             THEN <<ExpectedExample[j], ExpectedExample[j]>> ELSE NoPair
    /\ vStack = <<>> => /\ AnsweredOn(JoinSlot) = FivePairsThenEnd
                        /\ Len(AnsweredOn(OuterSlot)) = 6
\* execute() has returned, the range being 1..6: the join has answered the
\* fifth pair and the end.
C26_Witness ==
    /\ vStack = <<>>
    /\ vNum.to = RangeTo
    /\ Len(AnsweredOn(JoinSlot)) = 6
    /\ AnsweredOn(JoinSlot)[5] = <<5, 12>>
    /\ AnsweredOn(JoinSlot)[6] = NoPair

\* ------------------------------------------- claims on the tree's size

\* The sizes of the files in the fake tree under a directory of depth d, and
\* their number: d files of size d, and DirFanout - d subdirectories.
RECURSIVE TreeSize(_)
TreeSize(d) ==
    d * d + (IF d < DirFanout THEN (DirFanout - d) * TreeSize(d + 1) ELSE 0)
RECURSIVE FileCount(_)
FileCount(d) ==
    d + (IF d < DirFanout THEN (DirFanout - d) * FileCount(d + 1) ELSE 0)
\* The get_size tasks scheduled whose callback has not been called yet.
SizesPending ==
    Cardinality({j \in 1..Len(vTasks) : vTasks[j].k = "size"})
    + (IF Len(vStack) >= 2 /\ vStack[2].code = "batch" /\ vStack[2].a = 0
         THEN Cardinality({j \in 1..Len(vBatch) :
                             j > vStack[2].pc /\ vBatch[j].k = "size"})
         ELSE 0)

\* C28: calc_tree_size_async calls its callback at most once, and exactly
\* once by the time execute() returns; it calls it with the sum of the sizes
\* of all files of the tree, 81 for the test's root of depth 0, every
\* get_size having been asked and every get_size callback having added its
\* size before.
C28_TreeSizeOnceAfterAllSizes ==
    /\ Len(vOut) <= 1
    /\ vOut # <<>> => /\ vOut[1] = TreeSize(vNum.depth)
                      /\ vAsked = FileCount(vNum.depth)
                      /\ SizesPending = 0
                      /\ vTasks = <<>>
    /\ vNum.depth = 0 => /\ ~vFailed
                         /\ vOut # <<>> => vOut[1] = ExpectedSize
    /\ vStack = <<>> => Len(vOut) = 1
\* The test: execute() has returned and the callback got 81.
C28_Witness ==
    /\ vImpl = "scan"
    /\ vNum.depth = 0
    /\ vStack = <<>>
    /\ vOut = <<ExpectedSize>>
    /\ vAsked = 33

\* ------------------------------------------------ claims on the executor

\* execute() is running.
InExecute == Len(vStack) >= 2
\* The numbers 1..n in order.
UpTo(n) == [j \in 1..n |-> j]

\* C31: schedule() only appends to the queue and runs nothing; the tasks are
\* run in the order scheduled, each once: the tasks run so far are the first
\* ones scheduled, and the tasks waiting are the rest, in order; a step that
\* returns from execute() leaves no task waiting and every scheduled task
\* run.
C31_ExecuteRunsAllInOrder ==
    /\ [](/\ vOut = UpTo(Len(vOut))
          /\ Len(vOut) <= vAsked
          /\ LET unrun == IF Len(vStack) >= 3
                            THEN SubSeq(vBatch, vStack[3].pc + 1, Len(vBatch))
                            ELSE <<>> IN
             vOut \o unrun \o vTasks = UpTo(vAsked))
    /\ [][vAsked' # vAsked =>
            vOut' = vOut /\ vStack' = vStack /\ vBatch' = vBatch
            /\ vTasks' = Append(vTasks, vAsked')]_vars
    /\ [][vNum' # vNum => vTasks' = <<>> /\ Len(vOut') = vAsked']_vars
\* execute() has returned after tasks scheduled before the call and tasks
\* scheduled by tasks, in a second batch, were run.
C31_Witness ==
    /\ vImpl = "executor"
    /\ vNum = 1
    /\ ~InExecute
    /\ vOut = UpTo(MaxScheduled)

\* ------------------------------------------- the loop, between its drives

\* C32: whenever no drive routine of the loop is on the call stack, the body
\* has been invoked once more than K() has been called, the calls made from
\* inside bodies (any number by one invocation) and the calls made from tasks
\* and from the main program taken together.
C32_OneBodyPerCall == Quiescent => bodyCalls = 1 + kSync + kAsync
\* Calls of both kinds were made, then all drives returned.
C32_Witness ==
    /\ Quiescent
    /\ kSync = MaxSync
    /\ kAsync >= 2
    /\ nextTask > 1
    /\ bodyCalls = 1 + kSync + kAsync

\* C33: while no drive routine of the loop is on the call stack the flag is
\* false, and a K() call made then, from a task or from the main program,
\* invokes the body.
C33_FlagClearBetweenDrives ==
    /\ [](~BodyActive => ~flag)
    /\ [][(kAsync' = kAsync + 1 /\ ~BodyActive) =>
            bodyCalls' = bodyCalls + 1 /\ BodyActive']_vars
\* A second call from outside found the flag false again and ran the body.
C33_Witness ==
    /\ kAsync = 2
    /\ kSync >= 1
    /\ BodyActive
    /\ Top.n = bodyCalls
    /\ Len(stack) <= 3

\* ----------------------------------------------- the slot, at any moment

\* C34: between the operations of a slot and inside every listener the slot
\* invokes, who_awaits_request and who_awaits_data are not both set: a
\* request that finds a parked request listener takes it out before it calls
\* it, and await parks nothing while a data listener waits.
C34_NeverBothRegistered == awaitsRequest = 0 \/ awaitsData = 0
\* A request met a parked request listener, which is running: the data
\* listener is registered and the request listener is not any more.
C34_Witness ==
    /\ STopIs("request")
    /\ STop.via = "request"
    /\ awaitsData # 0
    /\ awaitsRequest = 0
    /\ ~sFailed

\* C35: every listener passed to await is invoked at most once, with false
\* by a request or with true by termination; and once the consumer has
\* dropped its last slot object and every call has returned, each listener
\* has been invoked exactly once.
C35_AwaitListenerInvokedOnce ==
    /\ [](\A r \in 1..Len(rLog) :
            /\ Len(rLog[r]) <= 1
            /\ \A k \in 1..Len(rLog[r]) :
                 /\ rLog[r][k].via = "request" => ~rLog[r][k].term
                 /\ rLog[r][k].via = "dtor" => rLog[r][k].term)
    /\ []((~sFailed /\ sHandles = 0 /\ sStack = <<>>) =>
            \A r \in 1..Len(rLog) : Len(rLog[r]) = 1)

\* The step invokes nothing, fails no assert and leaves the slot as it was.
SilentNoOp ==
    /\ ~sFailed'
    /\ InvokesNone
    /\ Len(sStack') = Len(sStack)
    /\ UNCHANGED <<awaitsRequest, awaitsData, sUse, sAlive, sHandles>>

\* C36, as claimed: the drop of the last slot object while a data listener is
\* registered invokes nothing, and a deliver made afterwards while that
\* listener is still there does nothing.
C36_DeliverAfterLastDrop ==
    /\ [][(StepOp("drop") /\ sHandles' = 0 /\ awaitsData # 0) =>
            InvokesNone]_vars
    /\ [][(StepOp("deliver") /\ sHandles = 0 /\ awaitsData # 0) =>
            SilentNoOp]_vars
\* C36, as the code has it: the drop of the last slot object while a data
\* listener is registered invokes nothing; where no provider call holds the
\* record locked it destroys the record and the listener with it; no data
\* listener is invoked once the record is destroyed, and a deliver on the
\* destroyed record does nothing.
C36_DeliverOnDeadRecord ==
    /\ [][(StepOp("drop") /\ sHandles' = 0 /\ awaitsData # 0) =>
            InvokesNone]_vars
    /\ [][(StepOp("drop") /\ sHandles' = 0 /\ awaitsData # 0 /\ sUse = 1) =>
            ~sAlive' /\ awaitsData' = 0]_vars
    /\ [][~sAlive => hLog' = hLog]_vars
    /\ [][(StepOp("deliver") /\ sUse = 0) => SilentNoOp]_vars
\* A deliver was made on a destroyed record whose last data listener had
\* received nothing.
C36_Witness ==
    /\ sOp.op = "deliver"
    /\ sUse = 0
    /\ sHandles = 0
    /\ sStack = <<>>
    /\ ~sFailed
    /\ hLog # <<>>
    /\ hLog[Len(hLog)] = <<>>

\* ------------------------------------------- the cell, a setter unused

\* The fields a source has assigned.
Assigned == {fanOrder[j] : j \in 1..Len(fanOrder)}

\* C37: where a source destroys its setter without invoking it, the
\* finalizer still runs once, when the last handle is gone and not before,
\* and it receives the initial value in the field of that setter and the
\* answer in a field that was assigned.
C37_UnusedSetterStillFinalizes ==
    /\ rOwners # {} => finCalls = 0
    /\ rOwners = {} =>
         /\ finCalls = 1
         /\ \A f \in Fields :
              finValue[f] = IF f \in Assigned THEN fanVals[f] ELSE rInit[f]
\* The source of the second field answered nothing, the other answered.
C37_Witness ==
    /\ rOwners = {}
    /\ finCalls = 1
    /\ fanOrder = <<1>>
    /\ finValue = <<fanVals[1], rInit[2]>>
    /\ rNext = 4

\* -------------------------------------- the tree's size, both solutions

\* C38: whatever the order in which the deferred callbacks of next and
\* get_size are run, calc_tree_size_async calls its callback at most once,
\* with what calc_tree_size_sync returns for the same tree, when no task is
\* left to run; and it has called it when execute() returns.
C38_AsyncSizeIsSyncSize ==
    /\ Len(vOut) <= 1
    /\ vOut # <<>> => /\ vOut[1] = calc_tree_size_sync(vNum.depth)
                      /\ vTasks = <<>>
    /\ (vFailed \/ vStack = <<>>) => Len(vOut) = 1
\* The callback got the size of a tree with a subdirectory, 2 * 2 + 3 * 3.
C38_Witness ==
    /\ vImpl = "scan"
    /\ vNum.depth = 2
    /\ vOut = <<13>>
    /\ vAsked = 5
    /\ Len(vLoop) = 4

====
